---- MODULE Spec2Model ----
(***************************************************************************)
(* ci-diff-helper: the memoizing Travis configuration object               *)
(* (ci_diff_helper/travis.py on top of ci_diff_helper/_config_base.py)     *)
(* and the diffbase resolution it delegates to.                            *)
(*                                                                         *)
(* The program state is the cache of one Travis object.  The process       *)
(* environment, the git checkout and the GitHub API are outside the        *)
(* program: inputs gives, for every read of them, the answers it can get,  *)
(* and each read of an access draws one of them.  The calls an access      *)
(* makes are logged, with their arguments and results, so that the         *)
(* properties can speak about which probes ran, in which order and with    *)
(* what.  threads holds the position of each thread that is inside a       *)
(* property getter; where the accesses are made one after the other, no    *)
(* thread ever is.                                                         *)
(***************************************************************************)
EXTENDS Naturals, Integers, Sequences, FiniteSets, TLC

VARIABLES cache, last, calls, nacc, inputs, threads

vars == <<cache, last, calls, nacc, inputs, threads>>

(***************************************************************************)
(* Python values.  Every value is a tagged record, so that values of       *)
(* different Python types can be compared.  A str is a sequence of         *)
(* one-character strings.                                                  *)
(***************************************************************************)
UNSET == [t |-> "UNSET"]
None == [t |-> "None"]
PyBool(b) == [t |-> "bool", v |-> b]
PyInt(i) == [t |-> "int", v |-> i]
PyStr(s) == [t |-> "str", v |-> s]
Pair(a, b) == [t |-> "tuple", v |-> <<a, b>>]
\* A dict is the set of its <<key, value>> items.
Dict(items) == [t |-> "dict", v |-> items]

\* What the environment holds for a variable that is not set.
Absent == [t |-> "absent"]

(***************************************************************************)
(* str methods                                                             *)
(***************************************************************************)
Digits == {"0", "1", "2", "3", "4", "5", "6", "7", "8", "9"}
Whitespace == {" ", "\n", "\t"}

DigitVal(ch) ==
    CASE ch = "0" -> 0 [] ch = "1" -> 1 [] ch = "2" -> 2 [] ch = "3" -> 3
      [] ch = "4" -> 4 [] ch = "5" -> 5 [] ch = "6" -> 6 [] ch = "7" -> 7
      [] ch = "8" -> 8 [] ch = "9" -> 9

LowerChar(ch) ==
    CASE ch = "T" -> "t" [] ch = "R" -> "r" [] ch = "U" -> "u"
      [] ch = "E" -> "e" [] ch = "P" -> "p" [] OTHER -> ch

\* str.lower()
Lower(s) == [i \in 1..Len(s) |-> LowerChar(s[i])]

RECURSIVE LStrip(_)
LStrip(s) ==
    IF s # <<>> /\ Head(s) \in Whitespace THEN LStrip(Tail(s)) ELSE s

RECURSIVE RStrip(_)
RStrip(s) ==
    IF s # <<>> /\ s[Len(s)] \in Whitespace
    THEN RStrip(SubSeq(s, 1, Len(s) - 1))
    ELSE s

\* str.strip()
Strip(s) == RStrip(LStrip(s))

StartsWith(s, sep) ==
    /\ Len(sep) <= Len(s)
    /\ SubSeq(s, 1, Len(sep)) = sep

\* str.split(sep): the parts between the non-overlapping occurrences of sep,
\* found from the left.  cur is the part being collected.
RECURSIVE SplitFrom(_, _, _)
SplitFrom(s, sep, cur) ==
    IF s = <<>> THEN <<cur>>
    ELSE IF StartsWith(s, sep)
         THEN <<cur>> \o SplitFrom(SubSeq(s, Len(sep) + 1, Len(s)), sep, <<>>)
         ELSE SplitFrom(Tail(s), sep, Append(cur, Head(s)))

Split(s, sep) == SplitFrom(s, sep, <<>>)

\* str.split(): the maximal runs of non-whitespace characters.
RECURSIVE SplitWs(_, _)
SplitWs(s, cur) ==
    IF s = <<>> THEN (IF cur = <<>> THEN <<>> ELSE <<cur>>)
    ELSE IF Head(s) \in Whitespace
         THEN (IF cur = <<>> THEN <<>> ELSE <<cur>>) \o SplitWs(Tail(s), <<>>)
         ELSE SplitWs(Tail(s), Append(cur, Head(s)))

RECURSIVE DigitsVal(_, _)
DigitsVal(s, acc) ==
    IF s = <<>> THEN acc ELSE DigitsVal(Tail(s), 10 * acc + DigitVal(Head(s)))

AllDigits(s) == s # <<>> /\ \A i \in 1..Len(s) : s[i] \in Digits

\* int(str): surrounding whitespace and one sign are accepted; anything
\* else than decimal digits is a ValueError (None here).
ParseInt(s) ==
    LET body == Strip(s)
        signed == body # <<>> /\ Head(body) \in {"+", "-"}
        digits == IF signed THEN Tail(body) ELSE body
    IN  IF ~AllDigits(digits) THEN None
        ELSE IF signed /\ Head(body) = "-"
             THEN PyInt(0 - DigitsVal(digits, 0))
             ELSE PyInt(DigitsVal(digits, 0))

(***************************************************************************)
(* Evaluation of one property access.  s carries the object's cache, the   *)
(* log of the external calls made so far and the answers the outside       *)
(* world can give (inputs); a function returns the set of its possible     *)
(* outcomes, one per answer of the reads it makes: s with the result (val) *)
(* or with the exception raised (exc).                                     *)
(***************************************************************************)
NoExc == "none"

Ret(s, v) ==
    [cache |-> s.cache, calls |-> s.calls, inputs |-> s.inputs,
     exc |-> NoExc, val |-> v]
Raise(s, e) ==
    [cache |-> s.cache, calls |-> s.calls, inputs |-> s.inputs,
     exc |-> e, val |-> None]
Raised(o) == o.exc # NoExc

Log(s, fn, what, args, ret) ==
    [cache |-> s.cache,
     calls |-> Append(s.calls,
                      [fn |-> fn, what |-> what, args |-> args, ret |-> ret]),
     inputs |-> s.inputs]

SetAttr(s, attr, v) ==
    [cache |-> [s.cache EXCEPT ![attr] = v], calls |-> s.calls,
     inputs |-> s.inputs]

Fields ==
    {"_active", "_branch", "_is_merge", "_tag", "_base", "_event_type",
     "_merged_pr", "_pr", "_repo_url", "_slug"}

(***************************************************************************)
(* ci_diff_helper/environment_vars.py                                      *)
(***************************************************************************)
IN_TRAVIS == "TRAVIS"
TRAVIS_PR == "TRAVIS_PULL_REQUEST"
TRAVIS_BRANCH == "TRAVIS_BRANCH"
TRAVIS_EVENT_TYPE == "TRAVIS_EVENT_TYPE"
TRAVIS_RANGE == "TRAVIS_COMMIT_RANGE"
TRAVIS_SLUG == "TRAVIS_REPO_SLUG"
TRAVIS_TAG == "TRAVIS_TAG"
GH_TOKEN == "GITHUB_OAUTH_TOKEN"

(***************************************************************************)
(* The process environment and subprocesses                                *)
(***************************************************************************)
\* os.getenv(name, default)
getenv(s, name, default) ==
    {Ret(Log(s, "os.getenv", name, <<>>, raw),
         IF raw = Absent THEN default ELSE raw) : raw \in s.inputs[name]}

\* os.environ[name]
environ(s, name) ==
    {IF raw = Absent
     THEN Raise(Log(s, "os.environ", name, <<>>, raw), "KeyError")
     ELSE Ret(Log(s, "os.environ", name, <<>>, raw), raw) :
         raw \in s.inputs[name]}

\* A finished subprocess: its exit status, what it wrote to stdout and what
\* it said on stderr.
ProcErr(rc, out, err) == [t |-> "proc", rc |-> rc, out |-> out, err |-> err]
Proc(rc, out) == ProcErr(rc, out, "")

\* A subprocess that could not be started (no git executable): subprocess
\* raises OSError and there is no exit status.
NotStarted == [t |-> "oserror", rc |-> 127, out |-> <<>>, err |-> "ENOENT"]

\* _utils.check_output(*args, ignore_err=...): cmd is the git subcommand.
\* Only CalledProcessError is caught; stderr is not looked at.
check_output(s, cmd, args, ignore_err) ==
    {IF proc.t = "oserror" THEN Raise(Log(s, "git", cmd, args, proc), "OSError")
     ELSE IF proc.rc # 0
     THEN (IF ignore_err THEN Ret(Log(s, "git", cmd, args, proc), None)
           ELSE Raise(Log(s, "git", cmd, args, proc), "CalledProcessError"))
     ELSE Ret(Log(s, "git", cmd, args, proc), PyStr(Strip(proc.out))) :
         proc \in s.inputs[cmd]}

(***************************************************************************)
(* ci_diff_helper/git_tools.py                                             *)
(***************************************************************************)
HEAD == PyStr(<<"H", "E", "A", "D">>)

\* The number of parents that `git log --pretty=%P` printed.
NumParents(parents) == Len(SplitWs(parents.v, <<>>))

\* Faulty variant of merge_commit: every revision with two or more parents
\* is a merge.
merge_commit_OctopusIsMerge(s, revision) ==
    {IF Raised(parents) THEN parents
     ELSE Ret(parents, PyBool(NumParents(parents.val) >= 2)) :
         parents \in check_output(s, "log-parents", <<revision>>, FALSE)}

\* git_tools.merge_commit(revision): one parent is no merge, two parents
\* are a merge, an octopus merge is not supported.
merge_commit(s, revision) ==
    {IF Raised(parents) THEN parents
     ELSE IF NumParents(parents.val) < 2 THEN Ret(parents, PyBool(FALSE))
     ELSE IF NumParents(parents.val) = 2 THEN Ret(parents, PyBool(TRUE))
     ELSE Raise(parents, "NotImplementedError") :
         parents \in check_output(s, "log-parents", <<revision>>, FALSE)}

\* git_tools.commit_subject(revision)
commit_subject(s, revision) ==
    check_output(s, "log-subject", <<revision>>, FALSE)

(***************************************************************************)
(* ci_diff_helper/_utils.py: pr_from_commit                                *)
(***************************************************************************)
\* The length of the run of digits at the head of s.
RECURSIVE DigitRun(_)
DigitRun(s) ==
    IF s # <<>> /\ Head(s) \in Digits THEN 1 + DigitRun(Tail(s)) ELSE 0

\* _PR_ID_REGEX.findall(s) for the pattern #(\d+): the digit runs that
\* follow a '#', scanning from the left and resuming after each match.
RECURSIVE FindAllPrIds(_)
FindAllPrIds(s) ==
    IF s = <<>> THEN <<>>
    ELSE IF Head(s) = "#" /\ DigitRun(Tail(s)) > 0
         THEN <<SubSeq(s, 2, DigitRun(Tail(s)) + 1)>>
              \o FindAllPrIds(SubSeq(s, DigitRun(Tail(s)) + 2, Len(s)))
         ELSE FindAllPrIds(Tail(s))

\* Faulty variant of pr_from_commit: with several matches the first is taken.
pr_from_commit_FirstMatch(merge_subject) ==
    IF Len(FindAllPrIds(merge_subject.v)) >= 1
    THEN PyInt(DigitsVal(FindAllPrIds(merge_subject.v)[1], 0))
    ELSE None

pr_from_commit(merge_subject) ==
    IF Len(FindAllPrIds(merge_subject.v)) = 1
    THEN PyInt(DigitsVal(FindAllPrIds(merge_subject.v)[1], 0))
    ELSE None

(***************************************************************************)
(* ci_diff_helper/_config_base.py                                          *)
(***************************************************************************)
TrueStr == <<"t", "r", "u", "e">>

\* Faulty variant of _in_ci: the comparison is case-sensitive.
_in_ci_CaseSensitive(s, env_var) ==
    {Ret(raw, PyBool(raw.val.v = TrueStr)) :
         raw \in getenv(s, env_var, PyStr(<<>>))}

_in_ci(s, env_var) ==
    {Ret(raw, PyBool(Lower(raw.val.v) = TrueStr)) :
         raw \in getenv(s, env_var, PyStr(<<>>))}

_ci_branch(s, env_var) ==
    {IF raw.exc = "KeyError" THEN Raise(raw, "OSError") ELSE raw :
         raw \in environ(s, env_var)}

\* Config.active
active(s) ==
    IF s.cache._active = UNSET
    THEN {IF Raised(r) THEN r ELSE Ret(SetAttr(r, "_active", r.val), r.val) :
              r \in _in_ci(s, IN_TRAVIS)}
    ELSE {Ret(s, s.cache._active)}

\* Faulty variant of branch: the cache is not consulted.
branch_NoMemo(s) ==
    {IF Raised(r) THEN r ELSE Ret(SetAttr(r, "_branch", r.val), r.val) :
         r \in _ci_branch(s, TRAVIS_BRANCH)}

\* Config.branch
branch(s) ==
    IF s.cache._branch = UNSET
    THEN {IF Raised(r) THEN r ELSE Ret(SetAttr(r, "_branch", r.val), r.val) :
              r \in _ci_branch(s, TRAVIS_BRANCH)}
    ELSE {Ret(s, s.cache._branch)}

\* Faulty variant of is_merge: an error of merge_commit counts as no merge.
is_merge_ErrorIsNoMerge(s) ==
    IF s.cache._is_merge = UNSET
    THEN {IF Raised(r) /\ r.exc = "NotImplementedError"
          THEN Ret(SetAttr(r, "_is_merge", PyBool(FALSE)), PyBool(FALSE))
          ELSE IF Raised(r) THEN r
          ELSE Ret(SetAttr(r, "_is_merge", r.val), r.val) :
              r \in merge_commit(s, HEAD)}
    ELSE {Ret(s, s.cache._is_merge)}

\* Config.is_merge
is_merge(s) ==
    IF s.cache._is_merge = UNSET
    THEN {IF Raised(r) THEN r ELSE Ret(SetAttr(r, "_is_merge", r.val), r.val) :
              r \in merge_commit(s, HEAD)}
    ELSE {Ret(s, s.cache._is_merge)}

\* Faulty variant of tag: the empty string is not normalized to None.
tag_KeepsEmpty(s) ==
    IF s.cache._tag = UNSET
    THEN {Ret(SetAttr(tag_val, "_tag", tag_val.val), tag_val.val) :
              tag_val \in getenv(s, TRAVIS_TAG, PyStr(<<>>))}
    ELSE {Ret(s, s.cache._tag)}

\* Config.tag (Travis.tag is the inherited property)
tag(s) ==
    IF s.cache._tag = UNSET
    THEN {IF tag_val.val = PyStr(<<>>)
          THEN Ret(SetAttr(tag_val, "_tag", None), None)
          ELSE Ret(SetAttr(tag_val, "_tag", tag_val.val), tag_val.val) :
              tag_val \in getenv(s, TRAVIS_TAG, PyStr(<<>>))}
    ELSE {Ret(s, s.cache._tag)}

(***************************************************************************)
(* ci_diff_helper/_github.py                                               *)
(***************************************************************************)
HTTP_OK == 200

Response(status, json) == [t |-> "response", status |-> status, json |-> json]

_GH_COMPARE_PREFIX ==
    <<"h", "t", "t", "p", "s", ":", "/", "/", "a", "p", "i", ".", "g", "i",
      "t", "h", "u", "b", ".", "c", "o", "m", "/", "r", "e", "p", "o", "s",
      "/">>
_GH_COMPARE_INFIX == <<"/", "c", "o", "m", "p", "a", "r", "e", "/">>
Ellipsis == <<".", ".", ".">>

\* _GH_COMPARE_TEMPLATE.format(slug, start, finish)
_GH_COMPARE_TEMPLATE(slug, start, finish) ==
    PyStr(_GH_COMPARE_PREFIX \o slug.v \o _GH_COMPARE_INFIX
          \o start.v \o Ellipsis \o finish.v)

_get_headers(s) ==
    {IF github_token.val # None
     THEN Ret(github_token,
              Dict({<<"Authorization",
                      PyStr(<<"t", "o", "k", "e", "n", " ">>
                            \o github_token.val.v)>>}))
     ELSE Ret(github_token, Dict({})) :
         github_token \in getenv(s, GH_TOKEN, None)}

\* requests.Response.raise_for_status(): an HTTPError for a 4xx or 5xx status.
raise_for_status(s, response) ==
    IF response.status >= 400 /\ response.status < 600
    THEN Raise(s, "HTTPError")
    ELSE Ret(s, None)

_maybe_fail(s, response) ==
    IF response.status # HTTP_OK
    THEN raise_for_status(
             Log(s, "six.print_", "_rate_limit_info", <<>>, None), response)
    ELSE Ret(s, None)

\* requests.get(api_url, headers=headers)
requests_get(s, api_url, headers) ==
    {Ret(Log(s, "requests.get", "compare", <<api_url, headers>>, response),
         response) : response \in s.inputs["compare"]}

commit_compare(s, slug, start, finish) ==
    UNION {{IF Raised(_maybe_fail(response, response.val))
            THEN _maybe_fail(response, response.val)
            ELSE Ret(_maybe_fail(response, response.val), response.val.json) :
                response \in requests_get(
                    headers, _GH_COMPARE_TEMPLATE(slug, start, finish),
                    headers.val)} :
               headers \in _get_headers(s)}

(***************************************************************************)
(* ci_diff_helper/travis.py                                                *)
(***************************************************************************)
_RANGE_DELIMITER == Ellipsis

_URL_TEMPLATE(slug) ==
    PyStr(<<"h", "t", "t", "p", "s", ":", "/", "/", "g", "i", "t", "h", "u",
            "b", ".", "c", "o", "m", "/">> \o slug.v)

\* class TravisEventType(enum.Enum)
TravisEventType(name) == [t |-> "TravisEventType", v |-> name]
EventTypeNames == {"push", "pull_request", "api", "cron"}
EventTypeValue(name) ==
    CASE name = "push" -> <<"p", "u", "s", "h">>
      [] name = "pull_request" ->
             <<"p", "u", "l", "l", "_", "r", "e", "q", "u", "e", "s", "t">>
      [] name = "api" -> <<"a", "p", "i">>
      [] name = "cron" -> <<"c", "r", "o", "n">>

\* Faulty variant of _travis_pr: the ValueError of int() is not caught.
_travis_pr_RaisesOnBadValue(s) ==
    {IF ParseInt(raw.val.v) = None THEN Raise(raw, "ValueError")
     ELSE Ret(raw, ParseInt(raw.val.v)) :
         raw \in getenv(s, TRAVIS_PR, PyStr(<<>>))}

_travis_pr(s) ==
    {Ret(raw, ParseInt(raw.val.v)) : raw \in getenv(s, TRAVIS_PR, PyStr(<<>>))}

\* Faulty variant of _travis_event_type: an unknown name maps to push.
_travis_event_type_DefaultsToPush(s) ==
    {IF \E n \in EventTypeNames : EventTypeValue(n) = event_env.val.v
     THEN Ret(event_env,
              TravisEventType(CHOOSE n \in EventTypeNames :
                                  EventTypeValue(n) = event_env.val.v))
     ELSE Ret(event_env, TravisEventType("push")) :
         event_env \in getenv(s, TRAVIS_EVENT_TYPE, PyStr(<<>>))}

_travis_event_type(s) ==
    {IF \E n \in EventTypeNames : EventTypeValue(n) = event_env.val.v
     THEN Ret(event_env,
              TravisEventType(CHOOSE n \in EventTypeNames :
                                  EventTypeValue(n) = event_env.val.v))
     ELSE Raise(event_env, "ValueError") :
         event_env \in getenv(s, TRAVIS_EVENT_TYPE, PyStr(<<>>))}

\* Faulty variant of _get_commit_range: of more than two parts the first two
\* are taken.
_get_commit_range_FirstTwoParts(s) ==
    {IF Len(Split(commit_range.val.v, _RANGE_DELIMITER)) >= 2
     THEN Ret(commit_range,
              Pair(PyStr(Split(commit_range.val.v, _RANGE_DELIMITER)[1]),
                   PyStr(Split(commit_range.val.v, _RANGE_DELIMITER)[2])))
     ELSE Raise(commit_range, "OSError") :
         commit_range \in getenv(s, TRAVIS_RANGE, PyStr(<<>>))}

\* Faulty variant of _get_commit_range: a value that does not split in two
\* yields an empty range.
_get_commit_range_EmptyRange(s) ==
    {IF Len(Split(commit_range.val.v, _RANGE_DELIMITER)) = 2
     THEN Ret(commit_range,
              Pair(PyStr(Split(commit_range.val.v, _RANGE_DELIMITER)[1]),
                   PyStr(Split(commit_range.val.v, _RANGE_DELIMITER)[2])))
     ELSE Ret(commit_range, Pair(PyStr(<<>>), PyStr(<<>>))) :
         commit_range \in getenv(s, TRAVIS_RANGE, PyStr(<<>>))}

_get_commit_range(s) ==
    {IF Len(Split(commit_range.val.v, _RANGE_DELIMITER)) = 2
     THEN Ret(commit_range,
              Pair(PyStr(Split(commit_range.val.v, _RANGE_DELIMITER)[1]),
                   PyStr(Split(commit_range.val.v, _RANGE_DELIMITER)[2])))
     ELSE Raise(commit_range, "OSError") :
         commit_range \in getenv(s, TRAVIS_RANGE, PyStr(<<>>))}

\* Faulty variant of _verify_merge_base: a merge-base command that failed is
\* run a second time.
_verify_merge_base_RunsAgain(s, start, finish) ==
    UNION {IF Raised(first) \/ first.val # None
           THEN {IF Raised(first) THEN first
                 ELSE IF first.val # start THEN Raise(first, "ValueError")
                 ELSE Ret(first, None)}
           ELSE {IF Raised(merge_base) THEN merge_base
                 ELSE IF merge_base.val # start
                 THEN Raise(merge_base, "ValueError")
                 ELSE Ret(merge_base, None) :
                     merge_base \in check_output(
                         first, "merge-base", <<start, finish>>, TRUE)} :
               first \in check_output(s, "merge-base", <<start, finish>>, TRUE)}

\* Faulty variant of _verify_merge_base: the comparison is inverted.
_verify_merge_base_Inverted(s, start, finish) ==
    {IF Raised(merge_base) THEN merge_base
     ELSE IF merge_base.val = start THEN Raise(merge_base, "ValueError")
     ELSE Ret(merge_base, None) :
         merge_base \in check_output(s, "merge-base", <<start, finish>>, TRUE)}

\* Faulty variant of _verify_merge_base: a failed merge-base command (None)
\* is let through.
_verify_merge_base_IgnoresFailure(s, start, finish) ==
    {IF Raised(merge_base) THEN merge_base
     ELSE IF merge_base.val # None /\ merge_base.val # start
     THEN Raise(merge_base, "ValueError")
     ELSE Ret(merge_base, None) :
         merge_base \in check_output(s, "merge-base", <<start, finish>>, TRUE)}

_verify_merge_base(s, start, finish) ==
    {IF Raised(merge_base) THEN merge_base
     ELSE IF merge_base.val # start THEN Raise(merge_base, "ValueError")
     ELSE Ret(merge_base, None) :
         merge_base \in check_output(s, "merge-base", <<start, finish>>, TRUE)}

\* payload[key], for a payload that json() decoded
GetItem(s, payload, key) ==
    IF payload.t # "dict" THEN Raise(s, "TypeError")
    ELSE IF \E item \in payload.v : item[1] = key
         THEN Ret(s, (CHOOSE item \in payload.v : item[1] = key)[2])
         ELSE Raise(s, "KeyError")

\* payload['merge_base_commit']['sha']
MergeBaseSha(payload) ==
    IF Raised(GetItem(payload, payload.val, "merge_base_commit"))
    THEN GetItem(payload, payload.val, "merge_base_commit")
    ELSE GetItem(payload,
                 GetItem(payload, payload.val, "merge_base_commit").val, "sha")

_get_merge_base_from_github(s, slug, start, finish) ==
    {IF Raised(payload) THEN payload ELSE MergeBaseSha(payload) :
         payload \in commit_compare(s, slug, start, finish)}

\* Faulty variant of ResolveStart: the start string of the range is returned
\* in place of the id rev-parse resolved it to.
ResolveStart_ReturnsStart(start_full, slug, start, finish) ==
    IF Raised(start_full) THEN {start_full}
    ELSE IF start_full.val = None
         THEN _get_merge_base_from_github(start_full, slug, start, finish)
         ELSE {IF Raised(verified) THEN verified ELSE Ret(verified, start) :
                   verified \in _verify_merge_base(
                       start_full, start_full.val, finish)}

\* Faulty variant of ResolveStart: start and finish are handed to the GitHub
\* client in the wrong order.
ResolveStart_SwappedRange(start_full, slug, start, finish) ==
    IF Raised(start_full) THEN {start_full}
    ELSE IF start_full.val = None
         THEN _get_merge_base_from_github(start_full, slug, finish, start)
         ELSE {IF Raised(verified) THEN verified
               ELSE Ret(verified, start_full.val) :
                   verified \in _verify_merge_base(
                       start_full, start_full.val, finish)}

\* Faulty variant of ResolveStart: when the merge-base check fails, GitHub
\* is asked.
ResolveStart_FallsBackOnMismatch(start_full, slug, start, finish) ==
    IF Raised(start_full) THEN {start_full}
    ELSE IF start_full.val = None
         THEN _get_merge_base_from_github(start_full, slug, start, finish)
         ELSE UNION {IF Raised(verified)
                     THEN _get_merge_base_from_github(
                              verified, slug, start, finish)
                     ELSE {Ret(verified, start_full.val)} :
                         verified \in _verify_merge_base(
                             start_full, start_full.val, finish)}

\* The body of _push_build_base once the commit range is split and
\* `git rev-parse start` has run.
ResolveStart(start_full, slug, start, finish) ==
    IF Raised(start_full) THEN {start_full}
    ELSE IF start_full.val = None
         THEN _get_merge_base_from_github(start_full, slug, start, finish)
         ELSE {IF Raised(verified) THEN verified
               ELSE Ret(verified, start_full.val) :
                   verified \in _verify_merge_base(
                       start_full, start_full.val, finish)}

_push_build_base(s, slug) ==
    UNION {IF Raised(range) THEN {range}
           ELSE UNION {ResolveStart(start_full, slug,
                                    range.val.v[1], range.val.v[2]) :
                           start_full \in check_output(
                               range, "rev-parse", <<range.val.v[1]>>, TRUE)} :
               range \in _get_commit_range(s)}

_travis_slug(s) ==
    {IF raw.exc = "KeyError" THEN Raise(raw, "OSError") ELSE raw :
         raw \in environ(s, TRAVIS_SLUG)}

\* Faulty variant of event_type: the value is returned but not stored.
event_type_NotStored(s) ==
    IF s.cache._event_type = UNSET
    THEN _travis_event_type(s)
    ELSE {Ret(s, s.cache._event_type)}

\* Travis.event_type
event_type(s) ==
    IF s.cache._event_type = UNSET
    THEN {IF Raised(r) THEN r
          ELSE Ret(SetAttr(r, "_event_type", r.val), r.val) :
              r \in _travis_event_type(s)}
    ELSE {Ret(s, s.cache._event_type)}

\* Faulty variant of in_pr: the build is a pull request when a pull-request
\* id is set.
in_pr_FromPrId(s) ==
    {Ret(raw, PyBool(ParseInt(raw.val.v) # None)) :
         raw \in getenv(s, TRAVIS_PR, PyStr(<<>>))}

\* Travis.in_pr
in_pr(s) ==
    {IF Raised(e) THEN e
     ELSE Ret(e, PyBool(e.val = TravisEventType("pull_request"))) :
         e \in event_type(s)}

\* Travis.slug
slug(s) ==
    IF s.cache._slug = UNSET
    THEN {IF Raised(r) THEN r ELSE Ret(SetAttr(r, "_slug", r.val), r.val) :
              r \in _travis_slug(s)}
    ELSE {Ret(s, s.cache._slug)}

\* Faulty variant of BaseFromBranch: the branch is returned but not stored
\* as the base.
BaseFromBranch_NotStored(s) ==
    {IF Raised(b) THEN b ELSE Ret(b, b.val) : b \in branch(s)}

\* Travis.base, the branch `self._base = self.branch`
BaseFromBranch(s) ==
    {IF Raised(b) THEN b ELSE Ret(SetAttr(b, "_base", b.val), b.val) :
         b \in branch(s)}

\* Faulty variant of BaseFromPush: without a slug the resolution goes on,
\* with an empty slug.
BaseFromPush_MissingSlugIsEmpty(s) ==
    UNION {{IF Raised(r) THEN r
            ELSE Ret(SetAttr(r, "_base", r.val), r.val) :
                r \in _push_build_base(
                    sl, IF Raised(sl) THEN PyStr(<<>>) ELSE sl.val)} :
               sl \in slug(s)}

\* Faulty variant of BaseFromPush: a failed resolution is remembered, None
\* being stored as the base.
BaseFromPush_StoresFailure(s) ==
    UNION {IF Raised(sl) THEN {sl}
           ELSE {IF Raised(r) THEN Raise(SetAttr(r, "_base", None), r.exc)
                 ELSE Ret(SetAttr(r, "_base", r.val), r.val) :
                     r \in _push_build_base(sl, sl.val)} :
               sl \in slug(s)}

\* Travis.base, the branch `self._base = _push_build_base(self.slug)`
BaseFromPush(s) ==
    UNION {IF Raised(sl) THEN {sl}
           ELSE {IF Raised(r) THEN r
                 ELSE Ret(SetAttr(r, "_base", r.val), r.val) :
                     r \in _push_build_base(sl, sl.val)} :
               sl \in slug(s)}

\* Faulty variant of BaseNotInPr: a cron build is resolved like a push build.
BaseNotInPr_CronAsPush(s) ==
    UNION {IF Raised(e) THEN {e}
           ELSE IF e.val \in {TravisEventType("push"), TravisEventType("cron")}
           THEN BaseFromPush(e)
           ELSE {Raise(e, "NotImplementedError")} :
               e \in event_type(s)}

\* Travis.base, after `self.in_pr` answered False
BaseNotInPr(s) ==
    UNION {IF Raised(e) THEN {e}
           ELSE IF e.val = TravisEventType("push") THEN BaseFromPush(e)
           ELSE {Raise(e, "NotImplementedError")} :
               e \in event_type(s)}

\* Travis.base
base(s) ==
    IF s.cache._base = UNSET
    THEN UNION {IF Raised(p) THEN {p}
                ELSE IF p.val = PyBool(TRUE) THEN BaseFromBranch(p)
                ELSE BaseNotInPr(p) :
                    p \in in_pr(s)}
    ELSE {Ret(s, s.cache._base)}

\* Travis.merged_pr, the branch of a merge commit at HEAD
MergedPrFromSubject(s) ==
    {IF Raised(merge_subject) THEN merge_subject
     ELSE Ret(SetAttr(merge_subject, "_merged_pr",
                      pr_from_commit(merge_subject.val)),
              pr_from_commit(merge_subject.val)) :
         merge_subject \in commit_subject(s, HEAD)}

\* Faulty variant of MergedPrFromPush: the subject is fetched whether HEAD
\* is a merge commit or not.
MergedPrFromPush_AlwaysSubject(s) ==
    UNION {IF Raised(m) THEN {m}
           ELSE {IF Raised(merge_subject) THEN merge_subject
                 ELSE IF m.val = PyBool(TRUE)
                 THEN Ret(SetAttr(merge_subject, "_merged_pr",
                                  pr_from_commit(merge_subject.val)),
                          pr_from_commit(merge_subject.val))
                 ELSE Ret(SetAttr(merge_subject, "_merged_pr", None), None) :
                     merge_subject \in commit_subject(m, HEAD)} :
               m \in merge_commit(s, HEAD)}

\* Faulty variant of MergedPrFromPush: the is_merge property is asked in
\* place of git_tools.merge_commit().
MergedPrFromPush_UsesIsMerge(s) ==
    UNION {IF Raised(m) THEN {m}
           ELSE IF m.val = PyBool(TRUE) THEN MergedPrFromSubject(m)
           ELSE {Ret(SetAttr(m, "_merged_pr", None), None)} :
               m \in is_merge(s)}

\* Travis.merged_pr, the branch of a push build
MergedPrFromPush(s) ==
    UNION {IF Raised(m) THEN {m}
           ELSE IF m.val = PyBool(TRUE) THEN MergedPrFromSubject(m)
           ELSE {Ret(SetAttr(m, "_merged_pr", None), None)} :
               m \in merge_commit(s, HEAD)}

\* Faulty variant of MergedPrNotInPr: outside a push build None is stored
\* and returned.
MergedPrNotInPr_NoneOutsidePush(s) ==
    UNION {IF Raised(e) THEN {e}
           ELSE IF e.val = TravisEventType("push") THEN MergedPrFromPush(e)
           ELSE {Ret(SetAttr(e, "_merged_pr", None), None)} :
               e \in event_type(s)}

\* Travis.merged_pr, after `self.in_pr` answered False
MergedPrNotInPr(s) ==
    UNION {IF Raised(e) THEN {e}
           ELSE IF e.val = TravisEventType("push") THEN MergedPrFromPush(e)
           ELSE {Raise(e, "NotImplementedError")} :
               e \in event_type(s)}

\* Faulty variant of merged_pr: a pull-request build is handled like a push
\* build.
merged_pr_PullRequestAsPush(s) ==
    IF s.cache._merged_pr # UNSET THEN {Ret(s, s.cache._merged_pr)}
    ELSE UNION {IF Raised(p) THEN {p}
                ELSE IF p.val = PyBool(TRUE) THEN MergedPrFromPush(p)
                ELSE MergedPrNotInPr(p) :
                    p \in in_pr(s)}

\* Travis.merged_pr
merged_pr(s) ==
    IF s.cache._merged_pr # UNSET THEN {Ret(s, s.cache._merged_pr)}
    ELSE UNION {IF Raised(p) THEN {p}
                ELSE IF p.val = PyBool(TRUE)
                THEN {Ret(SetAttr(p, "_merged_pr", None), None)}
                ELSE MergedPrNotInPr(p) :
                    p \in in_pr(s)}

\* Faulty variant of pr: the cache is not consulted.
pr_NoMemo(s) ==
    {IF Raised(r) THEN r ELSE Ret(SetAttr(r, "_pr", r.val), r.val) :
         r \in _travis_pr(s)}

\* Travis.pr
pr(s) ==
    IF s.cache._pr = UNSET
    THEN {IF Raised(r) THEN r ELSE Ret(SetAttr(r, "_pr", r.val), r.val) :
              r \in _travis_pr(s)}
    ELSE {Ret(s, s.cache._pr)}

\* Travis.repo_url
repo_url(s) ==
    IF s.cache._repo_url = UNSET
    THEN {IF Raised(sl) THEN sl
          ELSE Ret(SetAttr(sl, "_repo_url", _URL_TEMPLATE(sl.val)),
                   _URL_TEMPLATE(sl.val)) :
              sl \in slug(s)}
    ELSE {Ret(s, s.cache._repo_url)}

(***************************************************************************)
(* The answers of the outside world: what the environment variables can    *)
(* hold, how the git commands can end, what GitHub can respond.            *)
(***************************************************************************)
InputKeys ==
    {IN_TRAVIS, TRAVIS_PR, TRAVIS_BRANCH, TRAVIS_EVENT_TYPE, TRAVIS_RANGE,
     TRAVIS_SLUG, TRAVIS_TAG, GH_TOKEN,
     "rev-parse", "merge-base", "log-parents", "log-subject", "compare"}

NL == <<"\n">>
ShaA == <<"a">>
ShaAA == <<"a", "a">>
ShaC == <<"c">>

Payloads ==
    {Dict({<<"merge_base_commit", Dict({<<"sha", PyStr(ShaC)>>})>>}),
     Dict({<<"merge_base_commit", Dict({<<"url", PyStr(ShaC)>>})>>}),
     Dict({<<"merge_base_commit", None>>}),
     Dict({<<"message", PyStr(<<"x">>)>>})}

Domain ==
    [k \in InputKeys |->
        CASE k = IN_TRAVIS ->
                 {Absent, PyStr(<<"T", "r", "u", "e">>),
                  PyStr(<<"f", "a", "l", "s", "e">>)}
          [] k = TRAVIS_PR ->
                 {Absent, PyStr(<<"f", "a", "l", "s", "e">>), PyStr(<<"1", "2">>)}
          [] k = TRAVIS_BRANCH ->
                 {Absent, PyStr(<<"m", "a", "s", "t", "e", "r">>),
                  PyStr(<<"d", "e", "v">>)}
          [] k = TRAVIS_EVENT_TYPE ->
                 {Absent, PyStr(<<>>), PyStr(<<"P", "u", "s", "h">>)}
                 \cup {PyStr(EventTypeValue(n)) : n \in EventTypeNames}
          [] k = TRAVIS_RANGE ->
                 {Absent, PyStr(<<"a", ".", ".", ".", "b">>), PyStr(<<"a", "b">>),
                  PyStr(<<"a", ".", ".", ".", "b", ".", ".", ".", "c">>)}
          [] k = TRAVIS_SLUG -> {Absent, PyStr(<<"o", "/", "r">>)}
          [] k = TRAVIS_TAG ->
                 {Absent, PyStr(<<>>), PyStr(<<"0", ".", "1">>)}
          [] k = GH_TOKEN -> {Absent, PyStr(<<"k">>)}
          [] k = "rev-parse" ->
                 {Proc(0, ShaA \o NL), Proc(0, ShaAA \o NL), Proc(128, ShaA \o NL)}
          [] k = "merge-base" ->
                 {Proc(0, ShaA \o NL), Proc(0, ShaAA \o NL), Proc(1, <<>>)}
          [] k = "log-parents" ->
                 {Proc(0, <<"p", "\n">>), Proc(0, <<"p", " ", "q", "\n">>),
                  Proc(0, <<"p", " ", "q", " ", "r", "\n">>), Proc(128, <<>>)}
          [] k = "log-subject" ->
                 {Proc(0, <<"#", "7", "\n">>),
                  Proc(0, <<"#", "7", " ", "#", "8", "\n">>),
                  Proc(0, <<"x", "\n">>), Proc(128, <<>>)}
          [] k = "compare" ->
                 {Response(HTTP_OK, p) : p \in Payloads}
                 \cup {Response(404, Dict({<<"message", PyStr(<<"x">>)>>})),
                       Response(202, Dict({}))}]

(***************************************************************************)
(* The state machine: a fresh Travis object, then property accesses.       *)
(* last is the outcome of the latest access and calls the external calls   *)
(* it made; nacc counts the accesses.                                      *)
(***************************************************************************)
MaxAccesses == 3

\* The threads that share the object, and a thread outside every getter.
Threads == {"t1", "t2"}
Idle == [pc |-> "idle", prop |-> "none", local |-> None]
NoThreads == [t \in Threads |-> Idle]

NoAccess == [prop |-> "none", exc |-> NoExc, val |-> None]

Init ==
    /\ cache = [f \in Fields |-> UNSET]
    /\ last = NoAccess
    /\ calls = <<>>
    /\ nacc = 0
    /\ threads = NoThreads
    /\ inputs = Domain

\* The object and an empty call log, at the start of an access.
Start == [cache |-> cache, calls |-> <<>>, inputs |-> inputs]

\* The access to prop ends with outcome o.
Finish(prop, o) ==
    /\ cache' = o.cache
    /\ calls' = o.calls
    /\ last' = [prop |-> prop, exc |-> o.exc, val |-> o.val]
    /\ nacc' = nacc + 1
    /\ UNCHANGED <<inputs, threads>>

AccessActive ==
    /\ nacc < MaxAccesses
    /\ \E o \in active(Start) : Finish("active", o)

AccessBranch ==
    /\ nacc < MaxAccesses
    /\ \E o \in branch(Start) : Finish("branch", o)

AccessIsMerge ==
    /\ nacc < MaxAccesses
    /\ \E o \in is_merge(Start) : Finish("is_merge", o)

AccessTag ==
    /\ nacc < MaxAccesses
    /\ \E o \in tag(Start) : Finish("tag", o)

AccessBase ==
    /\ nacc < MaxAccesses
    /\ \E o \in base(Start) : Finish("base", o)

AccessEventType ==
    /\ nacc < MaxAccesses
    /\ \E o \in event_type(Start) : Finish("event_type", o)

AccessInPr ==
    /\ nacc < MaxAccesses
    /\ \E o \in in_pr(Start) : Finish("in_pr", o)

AccessMergedPr ==
    /\ nacc < MaxAccesses
    /\ \E o \in merged_pr(Start) : Finish("merged_pr", o)

AccessPr ==
    /\ nacc < MaxAccesses
    /\ \E o \in pr(Start) : Finish("pr", o)

AccessSlug ==
    /\ nacc < MaxAccesses
    /\ \E o \in slug(Start) : Finish("slug", o)

AccessRepoUrl ==
    /\ nacc < MaxAccesses
    /\ \E o \in repo_url(Start) : Finish("repo_url", o)

Next ==
    \/ AccessActive
    \/ AccessBranch
    \/ AccessIsMerge
    \/ AccessTag
    \/ AccessBase
    \/ AccessEventType
    \/ AccessInPr
    \/ AccessMergedPr
    \/ AccessPr
    \/ AccessSlug
    \/ AccessRepoUrl

Spec == Init /\ [][Next]_vars

(***************************************************************************)
(* Reading the call log of an access                                       *)
(***************************************************************************)
\* The positions in log of the calls fn makes for what.
CallsTo(log, fn, what) ==
    {i \in 1..Len(log) : log[i].fn = fn /\ log[i].what = what}

GitCallsIn(log) == {i \in 1..Len(log) : log[i].fn = "git"}
HttpCallsIn(log) == {i \in 1..Len(log) : log[i].fn = "requests.get"}

\* What a git command that ended as proc hands to a caller that ignores errors.
Stdout(proc) == IF proc.rc # 0 THEN None ELSE PyStr(Strip(proc.out))

PullRequest == TravisEventType("pull_request")
Push == TravisEventType("push")
ApiOrCron == {TravisEventType("api"), TravisEventType("cron")}

\* This step is an access to prop.
Accessed(prop) == nacc' = nacc + 1 /\ last'.prop = prop

(***************************************************************************)
(* C1: on a pull_request build, the first access to base makes no git     *)
(* call and no HTTP request, and does what branch does: it sets and        *)
(* returns base equal to branch (the cached branch, else the value of      *)
(* TRAVIS_BRANCH read by this access); when branch itself cannot be        *)
(* resolved (TRAVIS_BRANCH unset) its OSError is what the access raises    *)
(* and base stays unset.                                                   *)
(***************************************************************************)
C1_PullRequestBaseIsBranch ==
    [][(Accessed("base") /\ cache._base = UNSET
            /\ cache'._event_type = PullRequest)
       => /\ GitCallsIn(calls') = {}
          /\ HttpCallsIn(calls') = {}
          /\ \/ /\ last'.exc = NoExc
                /\ last'.val = cache'._branch
                /\ cache'._base = cache'._branch
                /\ cache'._base # UNSET
                /\ IF cache._branch # UNSET
                   THEN cache'._branch = cache._branch
                   ELSE \E i \in CallsTo(calls', "os.environ", TRAVIS_BRANCH) :
                            calls'[i].ret = cache'._base
             \/ /\ last'.exc = "OSError"
                /\ cache._branch = UNSET
                /\ cache'._branch = UNSET
                /\ cache'._base = UNSET
                /\ \E i \in CallsTo(calls', "os.environ", TRAVIS_BRANCH) :
                       calls'[i].ret = Absent]_vars

\* A first access to base on a pull_request build has read TRAVIS_BRANCH and
\* returned it.
C1_Witness ==
    /\ last.prop = "base"
    /\ last.exc = NoExc
    /\ cache._event_type = PullRequest
    /\ CallsTo(calls, "os.environ", TRAVIS_BRANCH) # {}
    /\ cache._base = cache._branch
    /\ last.val = PyStr(<<"d", "e", "v">>)

(***************************************************************************)
(* The push path of base, read from the log of the access.                 *)
(***************************************************************************)
RevParseCalls == CallsTo(calls, "git", "rev-parse")
MergeBaseCalls == CallsTo(calls, "git", "merge-base")
RangeReads == CallsTo(calls, "os.getenv", TRAVIS_RANGE)

\* rev-parse resolved start to an id and merge-base answered that same id.
LocalBaseAgrees ==
    /\ last.prop = "base"
    /\ RevParseCalls # {}
    /\ MergeBaseCalls # {}
    /\ \A i \in RevParseCalls : \A j \in MergeBaseCalls :
           /\ Stdout(calls[i].ret) # None
           /\ Stdout(calls[j].ret) = Stdout(calls[i].ret)

(***************************************************************************)
(* C2: on a push build where `git rev-parse start` returns start_full and  *)
(* `git merge-base start_full finish` returns exactly start_full, base is  *)
(* start_full, the id rev-parse returned, and the GitHub compare client is *)
(* never called.                                                           *)
(***************************************************************************)
C2_LocalBaseIsStartFull ==
    LocalBaseAgrees
    => /\ last.exc = NoExc
       /\ cache._event_type = Push
       /\ HttpCallsIn(calls) = {}
       /\ \A i \in RevParseCalls :
              /\ last.val = Stdout(calls[i].ret)
              /\ cache._base = Stdout(calls[i].ret)
              /\ \A j \in MergeBaseCalls :
                     calls[j].args[1] = Stdout(calls[i].ret)

\* rev-parse resolved the start "a" of the range to the longer id "aa".
C2_Witness ==
    /\ LocalBaseAgrees
    /\ \E i \in RevParseCalls : calls[i].args = <<PyStr(ShaA)>>
    /\ cache._base = PyStr(ShaAA)
    /\ last.val = PyStr(ShaAA)

(***************************************************************************)
(* C3 as stated: under the same premise base == start, the start string    *)
(* parsed from the commit range, with no remote HTTP call.                 *)
(***************************************************************************)
C3_Original ==
    LocalBaseAgrees
    => /\ HttpCallsIn(calls) = {}
       /\ \A i \in RevParseCalls : last.val = calls[i].args[1]

(***************************************************************************)
(* C3, amended: under the same premise base is startFull, the id that      *)
(* rev-parse returned for start; it is the start string of the commit      *)
(* range only when rev-parse returned that string unchanged.  No remote    *)
(* HTTP call is made.                                                      *)
(***************************************************************************)
C3_LocalBaseIsResolvedStart ==
    LocalBaseAgrees
    => /\ HttpCallsIn(calls) = {}
       /\ \A r \in RangeReads : \A i \in RevParseCalls :
              /\ StartsWith(calls[r].ret.v, calls[i].args[1].v \o Ellipsis)
              /\ last.val = Stdout(calls[i].ret)
              /\ (last.val = calls[i].args[1]
                      <=> Stdout(calls[i].ret) = calls[i].args[1])

\* rev-parse returned the start string "a" of the range unchanged, and base
\* is that string.
C3_Witness ==
    /\ LocalBaseAgrees
    /\ last.exc = NoExc
    /\ \E i \in RevParseCalls :
           /\ calls[i].args[1] = PyStr(ShaA)
           /\ Stdout(calls[i].ret) = PyStr(ShaA)
    /\ cache._base = PyStr(ShaA)

(***************************************************************************)
(* C4: on a push build where rev-parse of start returns an id start_full,  *)
(* merge-base is run on (start_full, finish) and the access to base fails  *)
(* with ValueError whenever what merge-base returns differs from           *)
(* start_full, also when the merge-base command fails and returns None;    *)
(* base stays unset.                                                       *)
(***************************************************************************)
C4_MergeBaseMismatchIsValueError ==
    (last.prop = "base" /\ RevParseCalls # {})
    => \A i \in RevParseCalls :
           Stdout(calls[i].ret) # None
           => /\ MergeBaseCalls # {}
              /\ \A j \in MergeBaseCalls :
                     /\ calls[j].args[1] = Stdout(calls[i].ret)
                     /\ Stdout(calls[j].ret) # Stdout(calls[i].ret)
                        => /\ last.exc = "ValueError"
                           /\ cache._base = UNSET

\* The merge-base command failed after rev-parse had resolved start.
C4_Witness ==
    /\ last.prop = "base"
    /\ last.exc = "ValueError"
    /\ cache._base = UNSET
    /\ \E i \in RevParseCalls : Stdout(calls[i].ret) # None
    /\ \E j \in MergeBaseCalls : calls[j].ret.rc # 0

(***************************************************************************)
(* C5: on a push build where rev-parse of start returns None, the GitHub   *)
(* compare client is called exactly once, for (slug, start, finish) with   *)
(* start the unresolved string of the commit range, and when it returns a  *)
(* payload holding merge_base_commit.sha, base is that sha.                *)
(***************************************************************************)
\* The sha at merge_base_commit -> sha of a payload, None when it has none.
PayloadSha(payload) ==
    IF /\ payload.t = "dict"
       /\ \E m \in payload.v :
              /\ m[1] = "merge_base_commit"
              /\ m[2].t = "dict"
              /\ \E x \in m[2].v : x[1] = "sha"
    THEN (CHOOSE x \in (CHOOSE m \in payload.v : m[1] = "merge_base_commit")[2].v :
              x[1] = "sha")[2]
    ELSE None

\* The response brought a payload back to the caller of the client.
Returned(response) == response.status < 400

C5_UnresolvedStartUsesCompareOnce ==
    (last.prop = "base" /\ \E i \in RevParseCalls : Stdout(calls[i].ret) = None)
    => /\ Cardinality(HttpCallsIn(calls)) = 1
       /\ MergeBaseCalls = {}
       /\ \A r \in RangeReads : \A i \in RevParseCalls : \A h \in HttpCallsIn(calls) :
              LET start == calls[i].args[1]
                  finish == PyStr(SubSeq(calls[r].ret.v, Len(start.v) + 4,
                                         Len(calls[r].ret.v)))
              IN  /\ calls[r].ret.v = start.v \o Ellipsis \o finish.v
                  /\ r < i /\ i < h
                  /\ calls[h].args[1] =
                         _GH_COMPARE_TEMPLATE(cache._slug, start, finish)
                  /\ (Returned(calls[h].ret) /\ PayloadSha(calls[h].ret.json) # None)
                     => /\ last.exc = NoExc
                        /\ last.val = PayloadSha(calls[h].ret.json)
                        /\ cache._base = PayloadSha(calls[h].ret.json)
                  /\ last.exc = NoExc
                     => /\ Returned(calls[h].ret)
                        /\ last.val = PayloadSha(calls[h].ret.json)

\* The start commit was not in the checkout and GitHub answered with the
\* merge base "c".
C5_Witness ==
    /\ last.prop = "base"
    /\ last.exc = NoExc
    /\ \E i \in RevParseCalls : Stdout(calls[i].ret) = None
    /\ Cardinality(HttpCallsIn(calls)) = 1
    /\ cache._base = PyStr(ShaC)

(***************************************************************************)
(* C6: when the event type is api or cron, every access to base raises     *)
(* NotImplementedError without any git command or HTTP request, and the    *)
(* failure is permanent: the event type stays what it is and base is       *)
(* never set.                                                              *)
(***************************************************************************)
C6_ApiCronBaseUnsupported ==
    [][/\ cache'._event_type \in ApiOrCron => cache'._base = UNSET
       /\ cache._event_type \in ApiOrCron
          => cache'._event_type = cache._event_type
       /\ (Accessed("base") /\ cache'._event_type \in ApiOrCron)
          => /\ last'.exc = "NotImplementedError"
             /\ GitCallsIn(calls') = {}
             /\ HttpCallsIn(calls') = {}]_vars

\* A later access to base on a cron build: the event type was already
\* cached (nothing is read) and the access raised again.
C6_Witness ==
    /\ last.prop = "base"
    /\ last.exc = "NotImplementedError"
    /\ cache._event_type = TravisEventType("cron")
    /\ calls = <<>>
    /\ nacc >= 2

(***************************************************************************)
(* C7: for every memoized property, an access that returns a value leaves  *)
(* that value in the property's cache field, and every access made while   *)
(* the field is set returns the cached value, makes no external call at    *)
(* all and changes nothing, whatever the environment or the repository     *)
(* would answer now.                                                       *)
(***************************************************************************)
Memoized ==
    {"active", "branch", "is_merge", "tag", "base", "event_type",
     "merged_pr", "pr", "slug", "repo_url"}

FieldOf(prop) ==
    CASE prop = "active" -> "_active"
      [] prop = "branch" -> "_branch"
      [] prop = "is_merge" -> "_is_merge"
      [] prop = "tag" -> "_tag"
      [] prop = "base" -> "_base"
      [] prop = "event_type" -> "_event_type"
      [] prop = "merged_pr" -> "_merged_pr"
      [] prop = "pr" -> "_pr"
      [] prop = "slug" -> "_slug"
      [] prop = "repo_url" -> "_repo_url"

C7_MemoizedAccessIsIdempotent ==
    [][\A prop \in Memoized :
           Accessed(prop)
           => /\ last'.exc = NoExc
                 => /\ cache'[FieldOf(prop)] = last'.val
                    /\ last'.val # UNSET
              /\ cache[FieldOf(prop)] # UNSET
                 => /\ last'.exc = NoExc
                    /\ last'.val = cache[FieldOf(prop)]
                    /\ calls' = <<>>
                    /\ cache' = cache]_vars

\* A repeated access to tag, whose cached value is None: nothing was read.
C7_Witness ==
    /\ last.prop = "tag"
    /\ last.exc = NoExc
    /\ last.val = None
    /\ cache._tag = None
    /\ calls = <<>>
    /\ nacc >= 2

(***************************************************************************)
(* C8: across any sequence of property accesses every cache field changes  *)
(* at most once, from UNSET to a concrete value: a field that is set is    *)
(* never reset and never takes another value.                              *)
(***************************************************************************)
C8_FieldsAreSetOnce ==
    [][\A f \in Fields : cache[f] # UNSET => cache'[f] = cache[f]]_vars

\* Three accesses later all of event_type, slug, base and pr are set: pr was
\* read by an access that left the fields set before it as they were.
C8_Witness ==
    /\ nacc >= 3
    /\ last.prop = "pr"
    /\ calls # <<>>
    /\ cache._pr # UNSET
    /\ cache._base # UNSET
    /\ cache._slug # UNSET
    /\ cache._event_type = Push
    /\ cache._repo_url # UNSET

(***************************************************************************)
(* C9: in every reachable state of a Travis object, the base cache being   *)
(* set implies that the event type is cached and is pull_request or push.  *)
(***************************************************************************)
C9_BaseSetImpliesPrOrPush ==
    cache._base # UNSET => cache._event_type \in {PullRequest, Push}

C9_Witness ==
    /\ cache._base # UNSET
    /\ cache._event_type = PullRequest
    /\ last.prop = "base"

(***************************************************************************)
(* Commit-range parsing on every value of TRAVIS_COMMIT_RANGE: a push      *)
(* build whose environment holds any string over RangeAlphabet of at most  *)
(* MaxRangeLen characters, or leaves the variable unset.  The range is     *)
(* read by _get_commit_range called on its own and by the access to base.  *)
(***************************************************************************)
MaxRangeLen == 6

RangeAlphabet == {"a", "b", "."}

RangeStrings ==
    UNION {[1..n -> RangeAlphabet] : n \in 0..MaxRangeLen}
    \cup {<<"a", ".", ".", ".", "b", ".", ".", ".", "c">>}

PushDomain(range) ==
    [k \in InputKeys |->
        CASE k = TRAVIS_RANGE -> {range}
          [] k = TRAVIS_EVENT_TYPE -> {PyStr(EventTypeValue("push"))}
          [] k = TRAVIS_SLUG -> {PyStr(<<"o", "/", "r">>)}
          [] k = GH_TOKEN -> {Absent}
          [] k = "rev-parse" -> {Proc(0, ShaAA \o NL), Proc(128, <<>>)}
          [] k = "merge-base" -> {Proc(0, ShaAA \o NL)}
          [] k = "compare" ->
                 {Response(HTTP_OK,
                           Dict({<<"merge_base_commit",
                                   Dict({<<"sha", PyStr(ShaC)>>})>>}))}
          [] OTHER -> Domain[k]]

InitRange ==
    /\ cache = [f \in Fields |-> UNSET]
    /\ last = NoAccess
    /\ calls = <<>>
    /\ nacc = 0
    /\ threads = NoThreads
    /\ \E range \in {Absent} \cup {PyStr(r) : r \in RangeStrings} :
           inputs = PushDomain(range)

GetCommitRange ==
    /\ nacc < MaxAccesses
    /\ \E o \in _get_commit_range(Start) : Finish("_get_commit_range", o)

NextRange ==
    \/ GetCommitRange
    \/ AccessBase

SpecRange == InitRange /\ [][NextRange]_vars

\* The positions at which the separator occurs in a string.
SeparatorAt(raw) ==
    {p \in 1..Len(raw) : StartsWith(SubSeq(raw, p, Len(raw)), Ellipsis)}

\* The string a read of an environment variable with default '' gives.
Text(raw) == IF raw = Absent THEN <<>> ELSE raw.v

(***************************************************************************)
(* C10: a TRAVIS_COMMIT_RANGE value A...B (the separator occurring once)   *)
(* is parsed to exactly (A, B): _get_commit_range returns that pair, and   *)
(* the access to base runs rev-parse on A and uses B as finish.  A value   *)
(* without the separator, the unset and the empty variable included,       *)
(* fails with OSError, yields no range, and no git command is run.         *)
(***************************************************************************)
C10_CommitRangeParsing ==
    \A r \in RangeReads :
        LET raw == Text(calls[r].ret)
        IN  /\ SeparatorAt(raw) = {}
               => /\ last.exc = "OSError"
                  /\ GitCallsIn(calls) = {}
                  /\ HttpCallsIn(calls) = {}
                  /\ cache._base = UNSET
            /\ \A p \in SeparatorAt(raw) :
                   SeparatorAt(raw) = {p}
                   => LET A == PyStr(SubSeq(raw, 1, p - 1))
                          B == PyStr(SubSeq(raw, p + 3, Len(raw)))
                      IN  /\ last.prop = "_get_commit_range"
                             => /\ last.exc = NoExc
                                /\ last.val = Pair(A, B)
                          /\ last.prop = "base"
                             => /\ last.exc = NoExc
                                /\ RevParseCalls # {}
                                /\ \A i \in RevParseCalls : calls[i].args = <<A>>
                                /\ \A j \in MergeBaseCalls : calls[j].args[2] = B
                                /\ \A h \in HttpCallsIn(calls) :
                                       calls[h].args[1] =
                                           _GH_COMPARE_TEMPLATE(cache._slug, A, B)

\* The value "ab...b" was parsed to ("ab", "b").
C10_Witness ==
    /\ last.prop = "_get_commit_range"
    /\ last.exc = NoExc
    /\ \E r \in RangeReads :
           calls[r].ret = PyStr(<<"a", "b", ".", ".", ".", "b">>)
    /\ last.val = Pair(PyStr(<<"a", "b">>), PyStr(<<"b">>))

(***************************************************************************)
(* Single environment variables on every value: the environment of the     *)
(* build holds, for one of TRAVIS, TRAVIS_TAG and TRAVIS_EVENT_TYPE, any   *)
(* string over FlagAlphabet of at most MaxFlagLen characters (any string   *)
(* of EventStrings for the event type) or leaves it unset, and the         *)
(* properties that read these variables are accessed.                      *)
(***************************************************************************)
MaxFlagLen == 4

FlagAlphabet == {"t", "T", "r", "u", "e"}

FlagStrings == UNION {[1..n -> FlagAlphabet] : n \in 0..MaxFlagLen}

\* The event names, what is cut from them, and what is padded or capitalized.
EventStrings ==
    UNION {{SubSeq(EventTypeValue(n), 1, k) : k \in 0..Len(EventTypeValue(n))} :
               n \in EventTypeNames}
    \cup {EventTypeValue(n) \o <<" ">> : n \in EventTypeNames}
    \cup {<<" ">> \o EventTypeValue(n) : n \in EventTypeNames}
    \cup {<<"P", "u", "s", "h">>, <<"P", "U", "S", "H">>, <<"x">>}

\* An environment that answers every read in one way, the variable name
\* holding value.
FixedDomain(name, value) ==
    [k \in InputKeys |->
        CASE k = name -> {value}
          [] k = IN_TRAVIS -> {PyStr(TrueStr)}
          [] k = TRAVIS_EVENT_TYPE -> {PyStr(EventTypeValue("push"))}
          [] k = TRAVIS_TAG -> {PyStr(<<"0", ".", "1">>)}
          [] OTHER -> {Absent}]

InitEnv ==
    /\ cache = [f \in Fields |-> UNSET]
    /\ last = NoAccess
    /\ calls = <<>>
    /\ nacc = 0
    /\ threads = NoThreads
    /\ \/ \E name \in {IN_TRAVIS, TRAVIS_TAG} :
              \E value \in {Absent} \cup {PyStr(v) : v \in FlagStrings} :
                  inputs = FixedDomain(name, value)
       \/ \E value \in {Absent} \cup {PyStr(v) : v \in EventStrings} :
              inputs = FixedDomain(TRAVIS_EVENT_TYPE, value)

NextEnv ==
    \/ AccessActive
    \/ AccessTag
    \/ AccessEventType

SpecEnv == InitEnv /\ [][NextEnv]_vars

\* What the environment of this build holds for the variable name.
Held(name) == CHOOSE value \in inputs[name] : TRUE

\* s is "true" up to the case of its letters.
IsTrueIgnoringCase(s) ==
    /\ Len(s) = 4
    /\ s[1] \in {"t", "T"}
    /\ s[2] \in {"r", "R"}
    /\ s[3] \in {"u", "U"}
    /\ s[4] \in {"e", "E"}

(***************************************************************************)
(* C11: in every environment, active never raises and is true iff the      *)
(* active-flag variable is set to a value equal to "true" up to case; it   *)
(* is false when the variable is unset or holds anything else.             *)
(***************************************************************************)
C11_ActiveIffFlagIsTrue ==
    last.prop = "active"
    => /\ last.exc = NoExc
       /\ cache._active = last.val
       /\ last.val = PyBool(/\ Held(IN_TRAVIS) # Absent
                            /\ IsTrueIgnoringCase(Held(IN_TRAVIS).v))

\* The flag holds "True" and active is true.
C11_Witness ==
    /\ last.prop = "active"
    /\ CallsTo(calls, "os.getenv", IN_TRAVIS) # {}
    /\ Held(IN_TRAVIS) = PyStr(<<"T", "r", "u", "e">>)
    /\ last.val = PyBool(TRUE)

(***************************************************************************)
(* C12: TRAVIS_EVENT_TYPE maps to an event type only when it is exactly    *)
(* one of push, pull_request, api, cron, and then to the member of that    *)
(* name; on any other value, the unset and the empty variable included,    *)
(* the access to event_type raises ValueError, no default is taken and     *)
(* the event_type cache stays unset.                                       *)
(***************************************************************************)
C12_EventTypeIsExactOrValueError ==
    last.prop = "event_type"
    => LET raw == Held(TRAVIS_EVENT_TYPE)
       IN  IF raw # Absent /\ \E n \in EventTypeNames : raw.v = EventTypeValue(n)
           THEN /\ last.exc = NoExc
                /\ \E n \in EventTypeNames :
                       /\ raw.v = EventTypeValue(n)
                       /\ last.val = TravisEventType(n)
                /\ cache._event_type = last.val
           ELSE /\ last.exc = "ValueError"
                /\ cache._event_type = UNSET
                /\ CallsTo(calls, "os.getenv", TRAVIS_EVENT_TYPE) # {}

\* The variable holds "Push", which is no event name.
C12_Witness ==
    /\ last.prop = "event_type"
    /\ Held(TRAVIS_EVENT_TYPE) = PyStr(<<"P", "u", "s", "h">>)
    /\ last.exc = "ValueError"
    /\ cache._event_type = UNSET

(***************************************************************************)
(* C20: reading tag never raises; tag is None when the tag variable is     *)
(* unset or set to the empty string, and is the variable's value           *)
(* otherwise.                                                              *)
(***************************************************************************)
C20_TagIsValueOrNone ==
    last.prop = "tag"
    => /\ last.exc = NoExc
       /\ cache._tag = last.val
       /\ last.val = IF Held(TRAVIS_TAG) \in {Absent, PyStr(<<>>)}
                     THEN None
                     ELSE Held(TRAVIS_TAG)

\* The tag variable is set, to the empty string, and tag is None.
C20_Witness ==
    /\ last.prop = "tag"
    /\ CallsTo(calls, "os.getenv", TRAVIS_TAG) # {}
    /\ Held(TRAVIS_TAG) = PyStr(<<>>)
    /\ last.val = None

(***************************************************************************)
(* The merge probes of an access, read from its log.                       *)
(***************************************************************************)
ParentsCalls == CallsTo(calls, "git", "log-parents")
SubjectCalls == CallsTo(calls, "git", "log-subject")

BuildDomain(event, pr_id, rev, parents) ==
    [k \in InputKeys |->
        CASE k = TRAVIS_EVENT_TYPE -> {event}
          [] k = TRAVIS_PR -> {pr_id}
          [] k = "rev-parse" -> {rev}
          [] k = "log-parents" -> {parents}
          [] k = IN_TRAVIS -> {PyStr(TrueStr)}
          [] k = TRAVIS_BRANCH -> {PyStr(<<"d", "e", "v">>)}
          [] k = TRAVIS_RANGE -> {PyStr(<<"a", ".", ".", ".", "b">>)}
          [] k = TRAVIS_SLUG -> {PyStr(<<"o", "/", "r">>)}
          [] k = TRAVIS_TAG -> {Absent}
          [] k = GH_TOKEN -> {Absent}
          [] k = "merge-base" -> {Proc(0, ShaAA \o NL)}
          [] k = "log-subject" -> {Proc(0, <<"#", "7", "\n">>)}
          [] k = "compare" ->
                 {Response(HTTP_OK,
                           Dict({<<"merge_base_commit",
                                   Dict({<<"sha", PyStr(ShaC)>>})>>}))}]

InitBuild ==
    /\ cache = [f \in Fields |-> UNSET]
    /\ last = NoAccess
    /\ calls = <<>>
    /\ nacc = 0
    /\ threads = NoThreads
    /\ \E event \in Domain[TRAVIS_EVENT_TYPE], pr_id \in Domain[TRAVIS_PR],
          rev \in {Proc(0, ShaAA \o NL), Proc(128, <<>>)},
          parents \in {Proc(0, <<"p", "\n">>), Proc(0, <<"p", " ", "q", "\n">>)} :
           inputs = BuildDomain(event, pr_id, rev, parents)

NextBuild ==
    \/ AccessPr
    \/ AccessEventType
    \/ AccessInPr
    \/ AccessBase
    \/ AccessMergedPr

SpecBuild == InitBuild /\ [][NextBuild]_vars

\* The same object at the start of an access in the environment that differs
\* from this one only in TRAVIS_PULL_REQUEST, which holds pr_id; cached_pr is
\* what the object has cached for pr there.
StartWithPr(pr_id, cached_pr) ==
    [cache |-> [cache EXCEPT !._pr = cached_pr], calls |-> <<>>,
     inputs |-> [inputs EXCEPT ![TRAVIS_PR] = {pr_id}]]

\* What the outcomes show, the environment and the cached pr left aside.
Observed(outcomes) ==
    {[exc |-> o.exc, val |-> o.val, calls |-> o.calls,
      cache |-> [f \in Fields \ {"_pr"} |-> o.cache[f]]] : o \in outcomes}

(***************************************************************************)
(* C16: in_pr, base and merged_pr depend on TRAVIS_EVENT_TYPE and not on   *)
(* TRAVIS_PULL_REQUEST: in two environments that differ only in the        *)
(* pull-request id (and so in what the object has cached for pr) each of   *)
(* the three accesses has the same outcome, makes the same calls and       *)
(* leaves the same cache, also when the id and the event type disagree;    *)
(* and none of the three ever reads the pull-request id.                   *)
(***************************************************************************)
C16_EventTypeIsAuthoritative ==
    /\ last.prop \in {"in_pr", "base", "merged_pr"}
       => CallsTo(calls, "os.getenv", TRAVIS_PR) = {}
    /\ \A pr_id \in Domain[TRAVIS_PR] :
           \A cached_pr \in {UNSET, ParseInt(IF pr_id = Absent THEN <<>> ELSE pr_id.v)} :
               /\ Observed(in_pr(StartWithPr(pr_id, cached_pr)))
                      = Observed(in_pr(Start))
               /\ Observed(base(StartWithPr(pr_id, cached_pr)))
                      = Observed(base(Start))
               /\ Observed(merged_pr(StartWithPr(pr_id, cached_pr)))
                      = Observed(merged_pr(Start))

\* A push build whose environment names pull request 12: pr is 12, in_pr is
\* false and base was resolved as on any push build.
C16_Witness ==
    /\ last.prop = "base"
    /\ last.exc = NoExc
    /\ cache._event_type = Push
    /\ Held(TRAVIS_PR) = PyStr(<<"1", "2">>)
    /\ cache._pr = PyInt(12)
    /\ RevParseCalls # {}

(***************************************************************************)
(* ci_diff_helper/__init__.py: get_config                                  *)
(***************************************************************************)
IN_APPVEYOR == "APPVEYOR"
IN_CIRCLE_CI == "CIRCLECI"

\* choices = [AppVeyor(), CircleCI(), Travis()]
Choices == <<"AppVeyor", "CircleCI", "Travis">>

\* The class attribute _active_env_var
ActiveEnvVar(cls) ==
    CASE cls = "AppVeyor" -> IN_APPVEYOR
      [] cls = "CircleCI" -> IN_CIRCLE_CI
      [] cls = "Travis" -> IN_TRAVIS

\* A config object of class cls whose active was read and is flag.
ConfigObject(cls, flag) == [t |-> "config", cls |-> cls, _active |-> flag]

\* Config.active on the fresh object choices[i]
ChoiceActive(s, i) == _in_ci(s, ActiveEnvVar(Choices[i]))

\* The choices whose active is true, in the order of choices.
Current(flags) ==
    SelectSeq([i \in 1..Len(Choices) |-> ConfigObject(Choices[i], flags[i])],
              LAMBDA choice : choice._active = PyBool(TRUE))

\* Faulty variant of Unique: with several active providers the first one
\* is returned.
Unique_FirstActive(s, flags) ==
    IF Len(Current(flags)) = 0
    THEN Raise(s, "OSError")
    ELSE Ret(s, Current(flags)[1])

\* get_config, after the loop: `if len(current) != 1`
Unique(s, flags) ==
    IF Len(Current(flags)) # 1
    THEN Raise(s, "OSError")
    ELSE Ret(s, Current(flags)[1])

get_config(s) ==
    UNION {UNION {{Unique(c3, <<c1.val, c2.val, c3.val>>) :
                       c3 \in ChoiceActive(c2, 3)} :
                      c2 \in ChoiceActive(c1, 2)} :
               c1 \in ChoiceActive(s, 1)}

(***************************************************************************)
(* Provider selection in every environment: each of the three active       *)
(* flags holds one of FlagValues or is unset.                              *)
(***************************************************************************)
FlagValues ==
    {Absent, PyStr(<<>>), PyStr(TrueStr), PyStr(<<"T", "r", "u", "e">>),
     PyStr(<<"f", "a", "l", "s", "e">>), PyStr(<<"1">>)}

InitConfig ==
    /\ cache = [f \in Fields |-> UNSET]
    /\ last = NoAccess
    /\ calls = <<>>
    /\ nacc = 0
    /\ threads = NoThreads
    /\ \E a \in FlagValues, c \in FlagValues, tr \in FlagValues :
           inputs = [k \in {IN_APPVEYOR, IN_CIRCLE_CI, IN_TRAVIS} |->
                        CASE k = IN_APPVEYOR -> {a}
                          [] k = IN_CIRCLE_CI -> {c}
                          [] k = IN_TRAVIS -> {tr}]

GetConfig ==
    /\ nacc < MaxAccesses
    /\ \E o \in get_config(Start) : Finish("get_config", o)

NextConfig ==
    \/ GetConfig
    \/ AccessActive

SpecConfig == InitConfig /\ [][NextConfig]_vars

\* The providers whose active flag is "true" up to case in this environment.
ActiveProviders ==
    {cls \in {"AppVeyor", "CircleCI", "Travis"} :
         /\ Held(ActiveEnvVar(cls)) # Absent
         /\ IsTrueIgnoringCase(Held(ActiveEnvVar(cls)).v)}

(***************************************************************************)
(* C17: get_config returns a config object iff exactly one of AppVeyor,    *)
(* CircleCI and Travis is active, and the object is of the active          *)
(* provider's type; with no active provider or more than one it raises     *)
(* OSError.                                                                *)
(***************************************************************************)
C17_GetConfigNeedsUniqueProvider ==
    last.prop = "get_config"
    => IF Cardinality(ActiveProviders) = 1
       THEN /\ last.exc = NoExc
            /\ last.val.t = "config"
            /\ last.val.cls \in ActiveProviders
       ELSE last.exc = "OSError"

\* Only CIRCLECI is set to true, spelled "True": the CircleCI config is
\* returned.
C17_Witness ==
    /\ last.prop = "get_config"
    /\ last.exc = NoExc
    /\ Held(IN_CIRCLE_CI) = PyStr(<<"T", "r", "u", "e">>)
    /\ Held(IN_TRAVIS) = PyStr(<<"f", "a", "l", "s", "e">>)
    /\ last.val = ConfigObject("CircleCI", PyBool(TRUE))

(***************************************************************************)
(* Two threads sharing one Travis object.  A getter of the form            *)
(*     if self._x is UNSET: self._x = probe()                              *)
(*     return self._x                                                      *)
(* is not atomic: a thread can be preempted after the test, after the      *)
(* probe and after the assignment.  The calls of all accesses and the      *)
(* assignments to the attributes are kept in one log.                      *)
(***************************************************************************)
SimpleGetters == {"active", "branch"}

\* The right-hand side of the assignment in the getter of prop.
ProbeOf(s, prop) ==
    CASE prop = "active" -> _in_ci(s, IN_TRAVIS)
      [] prop = "branch" -> _ci_branch(s, TRAVIS_BRANCH)

\* The object and the log so far, when a thread goes on.
Resume == [cache |-> cache, calls |-> calls, inputs |-> inputs]

InitThreads ==
    /\ cache = [f \in Fields |-> UNSET]
    /\ last = NoAccess
    /\ calls = <<>>
    /\ nacc = 0
    /\ threads = NoThreads
    /\ inputs = Domain

\* Thread t enters the getter of prop.
Enter(t, prop) ==
    /\ nacc < MaxAccesses
    /\ threads[t].pc = "idle"
    /\ threads' = [threads EXCEPT ![t] = [pc |-> "test", prop |-> prop,
                                          local |-> None]]
    /\ nacc' = nacc + 1
    /\ UNCHANGED <<cache, last, calls, inputs>>

\* `if self._x is UNSET`
Test(t) ==
    /\ threads[t].pc = "test"
    /\ threads' = [threads EXCEPT ![t].pc =
                       IF cache[FieldOf(threads[t].prop)] = UNSET
                       THEN "probe" ELSE "return"]
    /\ UNCHANGED <<cache, last, calls, nacc, inputs>>

\* The probe runs; an exception ends the access.
Probe(t) ==
    /\ threads[t].pc = "probe"
    /\ \E o \in ProbeOf(Resume, threads[t].prop) :
           /\ calls' = o.calls
           /\ IF Raised(o)
              THEN /\ threads' = [threads EXCEPT ![t] = Idle]
                   /\ last' = [prop |-> threads[t].prop, exc |-> o.exc,
                               val |-> None]
              ELSE /\ threads' = [threads EXCEPT ![t].pc = "assign",
                                                 ![t].local = o.val]
                   /\ last' = last
    /\ UNCHANGED <<cache, nacc, inputs>>

\* Faulty variant of Assign: the attribute is tested again and is only
\* assigned while it is unset.
Assign_TestsAgain(t) ==
    /\ threads[t].pc = "assign"
    /\ IF cache[FieldOf(threads[t].prop)] = UNSET
       THEN /\ cache' = [cache EXCEPT ![FieldOf(threads[t].prop)] =
                             threads[t].local]
            /\ calls' = Log(Resume, "setattr", FieldOf(threads[t].prop),
                            <<threads[t].local>>, None).calls
       ELSE UNCHANGED <<cache, calls>>
    /\ threads' = [threads EXCEPT ![t].pc = "return"]
    /\ UNCHANGED <<last, nacc, inputs>>

\* `self._x = ...`
Assign(t) ==
    /\ threads[t].pc = "assign"
    /\ cache' = [cache EXCEPT ![FieldOf(threads[t].prop)] = threads[t].local]
    /\ calls' = Log(Resume, "setattr", FieldOf(threads[t].prop),
                    <<threads[t].local>>, None).calls
    /\ threads' = [threads EXCEPT ![t].pc = "return"]
    /\ UNCHANGED <<last, nacc, inputs>>

\* `return self._x`
Return(t) ==
    /\ threads[t].pc = "return"
    /\ last' = [prop |-> threads[t].prop, exc |-> NoExc,
                val |-> cache[FieldOf(threads[t].prop)]]
    /\ threads' = [threads EXCEPT ![t] = Idle]
    /\ UNCHANGED <<cache, calls, nacc, inputs>>

NextThreads ==
    \/ \E t \in Threads, prop \in SimpleGetters : Enter(t, prop)
    \/ \E t \in Threads : Test(t)
    \/ \E t \in Threads : Probe(t)
    \/ \E t \in Threads : Assign(t)
    \/ \E t \in Threads : Return(t)

SpecThreads == InitThreads /\ [][NextThreads]_vars

\* The environment variable that the probe of prop reads.
ProbedVar(prop) ==
    CASE prop = "active" -> IN_TRAVIS
      [] prop = "branch" -> TRAVIS_BRANCH

\* The probes of prop that have run, and the assignments to its attribute.
ProbeRuns(prop) ==
    {i \in 1..Len(calls) :
         calls[i].fn \in {"os.getenv", "os.environ"}
             /\ calls[i].what = ProbedVar(prop)}
Assignments(prop) == CallsTo(calls, "setattr", FieldOf(prop))

(***************************************************************************)
(* C18: memoization is not synchronized.  Nothing keeps a second thread    *)
(* from testing the attribute while the first one is between its test and  *)
(* its assignment: every thread that saw UNSET runs the probe, and every   *)
(* probe that returned is followed by an assignment of its result,         *)
(* whatever the attribute holds by then.  So the probe runs once per       *)
(* thread that saw UNSET and the attribute is assigned once per probe      *)
(* that returned, which can be more than once.                             *)
(***************************************************************************)
C18_MemoizationIsNotSynchronized ==
    [][\A t \in Threads :
           /\ (threads[t].pc = "test" /\ threads'[t].pc # "test")
              => threads'[t].pc =
                     IF cache[FieldOf(threads[t].prop)] = UNSET
                     THEN "probe" ELSE "return"
           /\ (threads[t].pc = "assign" /\ threads'[t].pc # "assign")
              => /\ cache'[FieldOf(threads[t].prop)] = threads[t].local
                 /\ Cardinality(Assignments(threads[t].prop)')
                        = Cardinality(Assignments(threads[t].prop)) + 1]_vars

\* Both threads made the first access to branch, both saw UNSET, the probe
\* ran twice and the attribute, already set to "master" by one thread, was
\* set to "dev" by the other.
C18_Witness ==
    /\ Cardinality(ProbeRuns("branch")) = 2
    /\ Cardinality(Assignments("branch")) = 2
    /\ \E i \in Assignments("branch"), j \in Assignments("branch") :
           /\ i < j
           /\ calls[i].args = <<PyStr(<<"m", "a", "s", "t", "e", "r">>)>>
           /\ calls[j].args = <<PyStr(<<"d", "e", "v">>)>>
    /\ cache._branch = PyStr(<<"d", "e", "v">>)
    /\ nacc = 2

(***************************************************************************)
(* ci_diff_helper/_github.py: pr_info                                      *)
(***************************************************************************)
\* '{:d}'.format(n) for n >= 0
RECURSIVE Decimal(_)
Decimal(n) ==
    IF n < 10 THEN <<CHOOSE ch \in Digits : DigitVal(ch) = n>>
    ELSE Decimal(n \div 10) \o <<CHOOSE ch \in Digits : DigitVal(ch) = n % 10>>

_GH_PR_INFIX == <<"/", "p", "u", "l", "l", "s", "/">>

\* _GH_PR_TEMPLATE.format(slug, pr_id)
_GH_PR_TEMPLATE(repo_slug, pr_id) ==
    PyStr(_GH_COMPARE_PREFIX \o repo_slug.v \o _GH_PR_INFIX
          \o (IF pr_id.v < 0 THEN <<"-">> \o Decimal(0 - pr_id.v)
              ELSE Decimal(pr_id.v)))

\* requests.get(api_url, headers=headers), for a pull request
requests_get_pulls(s, api_url, headers) ==
    {Ret(Log(s, "requests.get", "pulls", <<api_url, headers>>, response),
         response) : response \in s.inputs["pulls"]}

pr_info(s, repo_slug, pr_id) ==
    UNION {{IF Raised(_maybe_fail(response, response.val))
            THEN _maybe_fail(response, response.val)
            ELSE Ret(_maybe_fail(response, response.val), response.val.json) :
                response \in requests_get_pulls(
                    headers, _GH_PR_TEMPLATE(repo_slug, pr_id), headers.val)} :
               headers \in _get_headers(s)}

(***************************************************************************)
(* ci_diff_helper/circle_ci.py                                             *)
(***************************************************************************)
CIRCLE_CI_REPO_URL == "CIRCLE_REPOSITORY_URL"
CIRCLE_CI_PR_NUM == "CIRCLE_PR_NUMBER"

_GITHUB_HOST == <<"g", "i", "t", "h", "u", "b", ".", "c", "o", "m">>
_GITHUB_PREFIX == <<"h", "t", "t", "p", "s", ":", "/", "/">> \o _GITHUB_HOST \o <<"/">>
_BITBUCKET_HOST ==
    <<"b", "i", "t", "b", "u", "c", "k", "e", "t", ".", "o", "r", "g">>
_BITBUCKET_PREFIX ==
    <<"h", "t", "t", "p", "s", ":", "/", "/">> \o _BITBUCKET_HOST \o <<"/">>

\* class CircleCIRepoProvider(enum.Enum)
CircleCIRepoProvider(name) == [t |-> "CircleCIRepoProvider", v |-> name]

\* `sub in s`
Contains(s, sub) ==
    \E i \in 1..(Len(s) + 1) :
        /\ i + Len(sub) - 1 <= Len(s)
        /\ SubSeq(s, i, i + Len(sub) - 1) = sub

\* s.split(prefix, 1)[1] for s that starts with prefix
AfterPrefix(s, prefix) == SubSeq(s, Len(prefix) + 1, Len(s))

CircleFields ==
    {"_active", "_branch", "_is_merge", "_tag", "_base", "_pr",
     "_pr_info_cached", "_provider", "_repo_url", "_slug"}

_circle_ci_pr(s) ==
    {Ret(raw, ParseInt(raw.val.v)) :
         raw \in getenv(s, CIRCLE_CI_PR_NUM, PyStr(<<>>))}

_repo_url(s) ==
    {IF raw.exc = "KeyError" THEN Raise(raw, "OSError") ELSE raw :
         raw \in environ(s, CIRCLE_CI_REPO_URL)}

_provider_slug(s, url) ==
    IF Contains(url.v, _GITHUB_HOST)
    THEN IF StartsWith(url.v, _GITHUB_PREFIX)
         THEN Ret(s, Pair(CircleCIRepoProvider("github"),
                          PyStr(AfterPrefix(url.v, _GITHUB_PREFIX))))
         ELSE Raise(s, "ValueError")
    ELSE IF Contains(url.v, _BITBUCKET_HOST)
    THEN IF StartsWith(url.v, _BITBUCKET_PREFIX)
         THEN Ret(s, Pair(CircleCIRepoProvider("bitbucket"),
                          PyStr(AfterPrefix(url.v, _BITBUCKET_PREFIX))))
         ELSE Raise(s, "ValueError")
    ELSE Raise(s, "ValueError")

\* CircleCI.pr
CircleCI_pr(s) ==
    IF s.cache._pr = UNSET
    THEN {IF Raised(r) THEN r ELSE Ret(SetAttr(r, "_pr", r.val), r.val) :
              r \in _circle_ci_pr(s)}
    ELSE {Ret(s, s.cache._pr)}

\* CircleCI.in_pr
CircleCI_in_pr(s) ==
    {IF Raised(p) THEN p ELSE Ret(p, PyBool(p.val # None)) :
         p \in CircleCI_pr(s)}

\* CircleCI.repo_url
CircleCI_repo_url(s) ==
    IF s.cache._repo_url = UNSET
    THEN {IF Raised(r) THEN r ELSE Ret(SetAttr(r, "_repo_url", r.val), r.val) :
              r \in _repo_url(s)}
    ELSE {Ret(s, s.cache._repo_url)}

\* `self._provider, self._slug = _provider_slug(self.repo_url)`
\* The call of _provider_slug is logged with the URL it is given and the
\* pair it returns (None when it raises).
SetProviderSlug(s) ==
    {IF Raised(u) THEN u
     ELSE IF Raised(_provider_slug(u, u.val))
     THEN Raise(Log(u, "_provider_slug", "call", <<u.val>>, None), "ValueError")
     ELSE Ret(SetAttr(SetAttr(Log(u, "_provider_slug", "call", <<u.val>>,
                                  _provider_slug(u, u.val).val),
                              "_provider", _provider_slug(u, u.val).val.v[1]),
                      "_slug", _provider_slug(u, u.val).val.v[2]),
              None) :
         u \in CircleCI_repo_url(s)}

\* CircleCI.provider
CircleCI_provider(s) ==
    IF s.cache._provider = UNSET
    THEN {IF Raised(r) THEN r ELSE Ret(r, r.cache._provider) :
              r \in SetProviderSlug(s)}
    ELSE {Ret(s, s.cache._provider)}

\* Faulty variant of CircleCI_slug: the getter stores the slug and leaves
\* the provider alone.
CircleCI_slug_SetsSlugOnly(s) ==
    IF s.cache._slug = UNSET
    THEN {IF Raised(r) THEN r
          ELSE Ret(SetAttr(r, "_provider", s.cache._provider), r.cache._slug) :
              r \in SetProviderSlug(s)}
    ELSE {Ret(s, s.cache._slug)}

\* CircleCI.slug
CircleCI_slug(s) ==
    IF s.cache._slug = UNSET
    THEN {IF Raised(r) THEN r ELSE Ret(r, r.cache._slug) :
              r \in SetProviderSlug(s)}
    ELSE {Ret(s, s.cache._slug)}

\* CircleCI._pr_info, the branch `_github.pr_info(self.slug, current_pr)`
PrInfoFromGithub(s, current_pr) ==
    UNION {IF Raised(sl) THEN {sl}
           ELSE {IF Raised(info) THEN info
                 ELSE Ret(SetAttr(info, "_pr_info_cached", info.val), info.val) :
                     info \in pr_info(sl, sl.val, current_pr)} :
               sl \in CircleCI_slug(s)}

\* Faulty variant of PrInfoForPr: the PR info is fetched from GitHub whatever
\* the provider is.
PrInfoForPr_AnyProvider(s, current_pr) ==
    UNION {IF Raised(provider) THEN {provider}
           ELSE PrInfoFromGithub(provider, current_pr) :
               provider \in CircleCI_provider(s)}

\* CircleCI._pr_info, for a build in a pull request
PrInfoForPr(s, current_pr) ==
    UNION {IF Raised(provider) THEN {provider}
           ELSE IF provider.val = CircleCIRepoProvider("github")
           THEN PrInfoFromGithub(provider, current_pr)
           ELSE {Raise(provider, "NotImplementedError")} :
               provider \in CircleCI_provider(s)}

\* CircleCI._pr_info
CircleCI_pr_info(s) ==
    IF s.cache._pr_info_cached # UNSET THEN {Ret(s, s.cache._pr_info_cached)}
    ELSE UNION {IF Raised(current_pr) THEN {current_pr}
                ELSE IF current_pr.val = None
                THEN {Ret(SetAttr(current_pr, "_pr_info_cached", Dict({})),
                          Dict({}))}
                ELSE PrInfoForPr(current_pr, current_pr.val) :
                    current_pr \in CircleCI_pr(s)}

\* pr_info['base']['sha']
BaseSha(s, info) ==
    IF Raised(GetItem(s, info, "base")) THEN GetItem(s, info, "base")
    ELSE GetItem(s, GetItem(s, info, "base").val, "sha")

\* CircleCI.base, the except clause: self.slug and self.pr are read for the
\* arguments of the KeyError.
MissingKey(s) ==
    UNION {IF Raised(sl) THEN {sl}
           ELSE {IF Raised(p) THEN p ELSE Raise(p, "KeyError") :
                     p \in CircleCI_pr(sl)} :
               sl \in CircleCI_slug(s)}

\* CircleCI.base, in a pull request
BaseFromPrInfo(s) ==
    UNION {IF Raised(info) THEN {info}
           ELSE IF BaseSha(info, info.val).exc = "KeyError"
           THEN MissingKey(info)
           ELSE IF Raised(BaseSha(info, info.val))
           THEN {BaseSha(info, info.val)}
           ELSE {Ret(SetAttr(info, "_base", BaseSha(info, info.val).val),
                     BaseSha(info, info.val).val)} :
               info \in CircleCI_pr_info(s)}

\* CircleCI.base
CircleCI_base(s) ==
    IF s.cache._base # UNSET THEN {Ret(s, s.cache._base)}
    ELSE UNION {IF Raised(p) THEN {p}
                ELSE IF p.val = PyBool(TRUE) THEN BaseFromPrInfo(p)
                ELSE {Raise(p, "NotImplementedError")} :
                    p \in CircleCI_in_pr(s)}

(***************************************************************************)
(* A CircleCI object and its property accesses.  The log is kept over the  *)
(* lifetime of the object.                                                 *)
(***************************************************************************)
GithubUrl == _GITHUB_PREFIX \o <<"o", "/", "r">>

CircleKeys == {CIRCLE_CI_PR_NUM, CIRCLE_CI_REPO_URL, GH_TOKEN, "pulls"}

CircleDomain ==
    [k \in CircleKeys |->
        CASE k = CIRCLE_CI_PR_NUM ->
                 {Absent, PyStr(<<"1", "2">>), PyStr(<<"x">>)}
          [] k = CIRCLE_CI_REPO_URL ->
                 {Absent, PyStr(GithubUrl),
                  PyStr(_BITBUCKET_PREFIX \o <<"o", "/", "r">>),
                  PyStr(<<"h", "t", "t", "p", ":", "/", "/">> \o _GITHUB_HOST),
                  PyStr(<<"h", "t", "t", "p", "s", ":", "/", "/", "x", ".", "y">>)}
          [] k = GH_TOKEN -> {Absent}
          [] k = "pulls" ->
                 {Response(HTTP_OK,
                           Dict({<<"base", Dict({<<"sha", PyStr(ShaC)>>})>>})),
                  Response(HTTP_OK, Dict({<<"base", Dict({})>>})),
                  Response(HTTP_OK, Dict({<<"message", PyStr(<<"x">>)>>})),
                  Response(404, Dict({<<"message", PyStr(<<"x">>)>>}))}]

InitCircle ==
    /\ cache = [f \in CircleFields |-> UNSET]
    /\ last = NoAccess
    /\ calls = <<>>
    /\ nacc = 0
    /\ threads = NoThreads
    /\ inputs = CircleDomain

CircleAccessPr ==
    /\ nacc < MaxAccesses
    /\ \E o \in CircleCI_pr(Resume) : Finish("CircleCI.pr", o)

CircleAccessInPr ==
    /\ nacc < MaxAccesses
    /\ \E o \in CircleCI_in_pr(Resume) : Finish("CircleCI.in_pr", o)

CircleAccessRepoUrl ==
    /\ nacc < MaxAccesses
    /\ \E o \in CircleCI_repo_url(Resume) : Finish("CircleCI.repo_url", o)

CircleAccessProvider ==
    /\ nacc < MaxAccesses
    /\ \E o \in CircleCI_provider(Resume) : Finish("CircleCI.provider", o)

CircleAccessSlug ==
    /\ nacc < MaxAccesses
    /\ \E o \in CircleCI_slug(Resume) : Finish("CircleCI.slug", o)

CircleAccessBase ==
    /\ nacc < MaxAccesses
    /\ \E o \in CircleCI_base(Resume) : Finish("CircleCI.base", o)

NextCircle ==
    \/ CircleAccessPr
    \/ CircleAccessInPr
    \/ CircleAccessRepoUrl
    \/ CircleAccessProvider
    \/ CircleAccessSlug
    \/ CircleAccessBase

SpecCircle == InitCircle /\ [][NextCircle]_vars

\* The pr_info requests made over the lifetime of the object, and those
\* that brought a payload back.
PrInfoCalls == CallsTo(calls, "requests.get", "pulls")
PrInfoReturns == {i \in PrInfoCalls : calls[i].ret.status = HTTP_OK}

\* The sha at base -> sha of a payload, None when it has none.
PrBaseSha(payload) ==
    IF /\ payload.t = "dict"
       /\ \E m \in payload.v :
              /\ m[1] = "base"
              /\ m[2].t = "dict"
              /\ \E x \in m[2].v : x[1] = "sha"
    THEN (CHOOSE x \in (CHOOSE m \in payload.v : m[1] = "base")[2].v :
              x[1] = "sha")[2]
    ELSE None

\* Outside a pull request, or the repository is not hosted on GitHub.
NotGithubPr ==
    \/ cache._pr = None
    \/ cache._provider = CircleCIRepoProvider("bitbucket")

MaxPrLen == 3

PrAlphabet == {"0", "1", "+", "-", " ", "f"}

PrStrings ==
    UNION {[1..n -> PrAlphabet] : n \in 0..MaxPrLen}
    \cup {<<"f", "a", "l", "s", "e">>, <<"n", "o", "t", "-", "i", "n", "t">>,
          <<"1", "2", "3", "4">>, <<"1", ".", "5">>}

InitPr ==
    /\ cache = [f \in Fields |-> UNSET]
    /\ last = NoAccess
    /\ calls = <<>>
    /\ nacc = 0
    /\ threads = NoThreads
    /\ \E value \in {Absent} \cup {PyStr(v) : v \in PrStrings} :
           inputs = FixedDomain(TRAVIS_PR, value)

NextPr ==
    \/ AccessPr
    \/ AccessInPr

SpecPr == InitPr /\ [][NextPr]_vars

\* The first and the last character of text that is not whitespace.
FirstInk(text) == CHOOSE a \in 1..Len(text) :
    /\ text[a] \notin Whitespace
    /\ \A k \in 1..(a - 1) : text[k] \in Whitespace
LastInk(text) == CHOOSE b \in 1..Len(text) :
    /\ text[b] \notin Whitespace
    /\ \A k \in (b + 1)..Len(text) : text[k] \in Whitespace

\* text without the whitespace around it and without one leading sign.
Numeral(text) ==
    IF text[FirstInk(text)] \in {"+", "-"}
    THEN SubSeq(text, FirstInk(text) + 1, LastInk(text))
    ELSE SubSeq(text, FirstInk(text), LastInk(text))

\* text is a decimal integer: digits, after at most one sign, within
\* whitespace.
IntegerText(text) ==
    /\ \E k \in 1..Len(text) : text[k] \notin Whitespace
    /\ Numeral(text) # <<>>
    /\ \A k \in 1..Len(Numeral(text)) : Numeral(text)[k] \in Digits

RECURSIVE Pow10(_)
Pow10(n) == IF n = 0 THEN 1 ELSE 10 * Pow10(n - 1)

\* The digits of d weighted by their places, from place i on.
RECURSIVE PlaceValue(_, _)
PlaceValue(d, i) ==
    IF i > Len(d) THEN 0
    ELSE DigitVal(d[i]) * Pow10(Len(d) - i) + PlaceValue(d, i + 1)

IntegerValue(text) ==
    IF text[FirstInk(text)] = "-"
    THEN 0 - PlaceValue(Numeral(text), 1)
    ELSE PlaceValue(Numeral(text), 1)

(***************************************************************************)
(* C21: reading pr never raises; pr is the integer value of                *)
(* TRAVIS_PULL_REQUEST when the variable holds a decimal integer, and      *)
(* None when the variable is unset, holds "false" or holds any other text  *)
(* that is not a number.                                                   *)
(***************************************************************************)
C21_PrIsIntegerOrNone ==
    last.prop = "pr"
    => /\ last.exc = NoExc
       /\ cache._pr = last.val
       /\ last.val = IF Held(TRAVIS_PR) # Absent /\ IntegerText(Held(TRAVIS_PR).v)
                     THEN PyInt(IntegerValue(Held(TRAVIS_PR).v))
                     ELSE None

\* The variable holds "false" and pr is None.
C21_Witness ==
    /\ last.prop = "pr"
    /\ CallsTo(calls, "os.getenv", TRAVIS_PR) # {}
    /\ Held(TRAVIS_PR) = PyStr(<<"f", "a", "l", "s", "e">>)
    /\ last = [prop |-> "pr", exc |-> NoExc, val |-> None]
    /\ cache._pr = None

(***************************************************************************)
(* The push path of base on every way the probes can end: a push build     *)
(* with the commit range a...b where `git rev-parse a` resolves the        *)
(* commit, reports that the revision is unknown, fails for another reason  *)
(* or cannot be started, where merge-base agrees, disagrees, fails or      *)
(* cannot be started, and where GitHub answers as in Domain.               *)
(***************************************************************************)
UnknownRevision == ProcErr(128, <<>>, "unknown revision")
NotARepository == ProcErr(128, <<>>, "not a git repository")
Killed == ProcErr(0 - 9, <<>>, "")

ProbeDomain ==
    [k \in InputKeys |->
        CASE k = TRAVIS_RANGE -> {PyStr(<<"a", ".", ".", ".", "b">>)}
          [] k = TRAVIS_EVENT_TYPE -> {PyStr(EventTypeValue("push"))}
          [] k = TRAVIS_SLUG -> {PyStr(<<"o", "/", "r">>)}
          [] k = GH_TOKEN -> {Absent}
          [] k = "rev-parse" ->
                 {Proc(0, ShaAA \o NL), UnknownRevision, NotARepository,
                  Killed, NotStarted}
          [] k = "merge-base" ->
                 {Proc(0, ShaAA \o NL), Proc(0, ShaA \o NL), Proc(1, <<>>),
                  NotStarted}
          [] OTHER -> Domain[k]]

InitProbe ==
    /\ cache = [f \in Fields |-> UNSET]
    /\ last = NoAccess
    /\ calls = <<>>
    /\ nacc = 0
    /\ threads = NoThreads
    /\ inputs = ProbeDomain

NextProbe ==
    \/ AccessBase
    \/ AccessSlug

SpecProbe == InitProbe /\ [][NextProbe]_vars

(***************************************************************************)
(* C22: in an access to base that resolves a push build, the commit range  *)
(* is read first, `git rev-parse start` runs next, and once it has ended   *)
(* exactly one of the merge-base check and the GitHub compare request      *)
(* follows.  The compare request is made only if rev-parse returned        *)
(* nothing, and never in an access that ran the merge-base check: a        *)
(* merge-base mismatch does not fall back to GitHub.                       *)
(***************************************************************************)
C22_PushResolutionOrder ==
    last.prop = "base"
    => /\ \A i \in RevParseCalls :
              /\ RangeReads # {}
              /\ \A r \in RangeReads : r < i
              /\ calls[i].ret.t = "proc"
                 => Cardinality(MergeBaseCalls \cup HttpCallsIn(calls)) = 1
       /\ \A j \in MergeBaseCalls \cup HttpCallsIn(calls) :
              /\ RevParseCalls # {}
              /\ \A i \in RevParseCalls : i < j
       /\ HttpCallsIn(calls) # {}
          => /\ MergeBaseCalls = {}
             /\ \A i \in RevParseCalls :
                    calls[i].ret.t = "proc" /\ calls[i].ret.rc # 0
       /\ MergeBaseCalls # {}
          => /\ HttpCallsIn(calls) = {}
             /\ \A i \in RevParseCalls :
                    calls[i].ret.t = "proc" /\ calls[i].ret.rc = 0

\* merge-base answered another commit than the one rev-parse resolved: the
\* access failed and GitHub was not asked.
C22_Witness ==
    /\ last.prop = "base"
    /\ last.exc = "ValueError"
    /\ \E i \in RevParseCalls : \E j \in MergeBaseCalls :
           /\ i < j
           /\ calls[j].ret.t = "proc"
           /\ calls[j].ret.rc = 0
           /\ Stdout(calls[j].ret) # Stdout(calls[i].ret)
    /\ HttpCallsIn(calls) = {}
    /\ cache._base = UNSET

(***************************************************************************)
(* C23 as stated: of the ways rev-parse can fail, only the report that    *)
(* the revision is unknown locally is a soft miss, after which GitHub is   *)
(* asked; after any other failure of rev-parse the access to base fails    *)
(* and GitHub is not asked.                                                *)
(***************************************************************************)
C23_Original ==
    last.prop = "base"
    => \A i \in RevParseCalls :
           /\ calls[i].ret = UnknownRevision => HttpCallsIn(calls) # {}
           /\ (/\ calls[i].ret # UnknownRevision
               /\ (calls[i].ret.t = "oserror" \/ calls[i].ret.rc # 0))
              => /\ last.exc # NoExc
                 /\ HttpCallsIn(calls) = {}

(***************************************************************************)
(* The GitHub client on every kind of response: commit_compare and         *)
(* pr_info are called, with and without a token in the environment, and    *)
(* GitHub answers with any status of Statuses.                             *)
(***************************************************************************)
Statuses == {200, 201, 202, 204, 400, 401, 403, 404, 500, 503}

GithubDomain ==
    [k \in InputKeys \cup {"pulls"} |->
        CASE k \in {"compare", "pulls"} ->
                 {Response(status, Dict({<<"message", PyStr(<<"x">>)>>})) :
                      status \in Statuses}
          [] k = GH_TOKEN -> {Absent, PyStr(<<"k">>)}
          [] OTHER -> {Absent}]

InitGithub ==
    /\ cache = [f \in Fields |-> UNSET]
    /\ last = NoAccess
    /\ calls = <<>>
    /\ nacc = 0
    /\ threads = NoThreads
    /\ inputs = GithubDomain

CommitCompare ==
    /\ nacc < MaxAccesses
    /\ \E o \in commit_compare(Start, PyStr(<<"o", "/", "r">>), PyStr(ShaA),
                                PyStr(ShaC)) :
           Finish("commit_compare", o)

PrInfo ==
    /\ nacc < MaxAccesses
    /\ \E o \in pr_info(Start, PyStr(<<"o", "/", "r">>), PyInt(12)) :
           Finish("pr_info", o)

NextGithub ==
    \/ CommitCompare
    \/ PrInfo

SpecGithub == InitGithub /\ [][NextGithub]_vars

\* The positions in the log at which the rate-limit headers are printed.
RateLimitLogs == CallsTo(calls, "six.print_", "_rate_limit_info")

(***************************************************************************)
(* C24 as stated: for every response whose status is not 200, the GitHub  *)
(* client (commit_compare and pr_info) logs the rate-limit headers and     *)
(* then fails with an HTTP error, returning no payload; for status 200 it  *)
(* neither logs nor fails.                                                 *)
(***************************************************************************)
C24_Original ==
    last.prop \in {"commit_compare", "pr_info"}
    => \A h \in HttpCallsIn(calls) :
           IF calls[h].ret.status # HTTP_OK
           THEN /\ \E p \in RateLimitLogs : h < p
                /\ last.exc = "HTTPError"
           ELSE /\ RateLimitLogs = {}
                /\ last.exc = NoExc
                /\ last.val = calls[h].ret.json

(***************************************************************************)
(* C25 as stated: when the GitHub compare call returns 200 with a payload *)
(* in which the nested field merge_base_commit -> sha is absent, whatever  *)
(* the shape of the payload, the access to base fails with KeyError and    *)
(* base stays unset.                                                       *)
(***************************************************************************)
C25_Original ==
    last.prop = "base"
    => \A h \in HttpCallsIn(calls) :
           (calls[h].ret.status = HTTP_OK /\ PayloadSha(calls[h].ret.json) = None)
           => /\ last.exc = "KeyError"
              /\ cache._base = UNSET

\* The git command logged as c did not run to exit status 0.
GitFailed(c) == c.ret.t = "oserror" \/ c.ret.rc # 0

\* The external calls of the access: git commands and HTTP requests.
ExternalCalls == GitCallsIn(calls) \cup HttpCallsIn(calls)

MaxSubjectLen == 4

SubjectAlphabet == {"#", "1", "2", "x", " "}

SubjectStrings == UNION {[1..n -> SubjectAlphabet] : n \in 0..MaxSubjectLen}

SubjectDomain(subject) ==
    [k \in InputKeys \cup {"merge_subject"} |->
        CASE k = "merge_subject" -> {PyStr(subject)}
          [] k = "log-subject" -> {Proc(0, subject \o NL)}
          [] k = "log-parents" -> {Proc(0, <<"p", " ", "q", "\n">>)}
          [] k = TRAVIS_EVENT_TYPE -> {PyStr(EventTypeValue("push"))}
          [] OTHER -> {Absent}]

InitSubject ==
    /\ cache = [f \in Fields |-> UNSET]
    /\ last = NoAccess
    /\ calls = <<>>
    /\ nacc = 0
    /\ threads = NoThreads
    /\ \E subject \in SubjectStrings : inputs = SubjectDomain(subject)

PrFromCommit ==
    /\ nacc < MaxAccesses
    /\ \E merge_subject \in inputs["merge_subject"] :
           Finish("pr_from_commit", Ret(Start, pr_from_commit(merge_subject)))

NextSubject ==
    \/ PrFromCommit
    \/ AccessMergedPr

SpecSubject == InitSubject /\ [][NextSubject]_vars

\* The places in text where a '#' is followed by a digit.
PrMarks(text) ==
    {p \in 1..(Len(text) - 1) : text[p] = "#" /\ text[p + 1] \in Digits}

\* Where the digits that follow the '#' at p end.
EndOfDigits(text, p) ==
    CHOOSE q \in (p + 1)..Len(text) :
        /\ \A k \in (p + 1)..q : text[k] \in Digits
        /\ q = Len(text) \/ text[q + 1] \notin Digits

(***************************************************************************)
(* C27: pr_from_commit never raises; it returns the integer N iff the      *)
(* subject holds exactly one '#' followed by digits, N being the number    *)
(* those digits write, and None when the subject holds no such reference   *)
(* or more than one, also when they repeat one number.  merged_pr of a     *)
(* merge commit with that subject is the same value.                       *)
(***************************************************************************)
C27_PrFromCommitNeedsOneReference ==
    last.prop \in {"pr_from_commit", "merged_pr"}
    => LET text == Held("merge_subject").v
       IN  /\ last.exc = NoExc
           /\ last.val =
                  IF Cardinality(PrMarks(text)) = 1
                  THEN LET p == CHOOSE m \in PrMarks(text) : TRUE
                       IN  PyInt(PlaceValue(
                               SubSeq(text, p + 1, EndOfDigits(text, p)), 1))
                  ELSE None

\* The subject is "#1#1": one number, referred to twice.
C27_Witness ==
    /\ last.prop = "pr_from_commit"
    /\ Held("merge_subject") = PyStr(<<"#", "1", "#", "1">>)
    /\ last.val = None
    /\ last.exc = NoExc

\* The number of parents that a `git log --pretty=%P` output names: the
\* places where a word starts.
ParentCount(out) ==
    Cardinality({i \in 1..Len(out) :
                     /\ out[i] \notin Whitespace
                     /\ i = 1 \/ out[i - 1] \in Whitespace})

ParseCalls == CallsTo(calls, "_provider_slug", "call")
ParseReturns == {i \in ParseCalls : calls[i].ret # None}

\* The prefix that a repository URL of the provider starts with.
PrefixOf(provider) ==
    IF provider = CircleCIRepoProvider("github") THEN _GITHUB_PREFIX
    ELSE _BITBUCKET_PREFIX

(***************************************************************************)
(* C30: on CircleCI, after any sequence of property accesses _provider     *)
(* and _slug are both unset or both set.  They are set by one call of      *)
(* _provider_slug, made by the first access to provider or slug that       *)
(* succeeds, on the cached repository URL, which is the provider's prefix  *)
(* followed by the slug; once they are set, no access calls                *)
(* _provider_slug again.                                                   *)
(***************************************************************************)
C30_ProviderAndSlugSetTogether ==
    /\ cache._provider = UNSET <=> cache._slug = UNSET
    /\ cache._provider = UNSET => ParseReturns = {}
    /\ cache._provider # UNSET
       => /\ Cardinality(ParseReturns) = 1
          /\ \A i \in ParseReturns :
                 /\ calls[i].args = <<cache._repo_url>>
                 /\ calls[i].ret = Pair(cache._provider, cache._slug)
                 /\ \A k \in ParseCalls : k <= i
          /\ cache._repo_url.v = PrefixOf(cache._provider) \o cache._slug.v
    /\ (last.prop = "CircleCI.provider" /\ last.exc = NoExc)
       => last.val = cache._provider /\ last.val # UNSET
    /\ (last.prop = "CircleCI.slug" /\ last.exc = NoExc)
       => last.val = cache._slug /\ last.val # UNSET

\* provider is accessed after an earlier access parsed the URL and an access
\* to pr read the environment: this access called nothing.
C30_Witness ==
    /\ last.prop = "CircleCI.provider"
    /\ last.val = CircleCIRepoProvider("github")
    /\ cache._slug = PyStr(<<"o", "/", "r">>)
    /\ Cardinality(ParseCalls) = 1
    /\ \E i \in ParseCalls :
           /\ i < Len(calls)
           /\ calls[Len(calls)].what = CIRCLE_CI_PR_NUM

\* The reads of TRAVIS_REPO_SLUG in the access.
SlugReads == CallsTo(calls, "os.environ", TRAVIS_SLUG)

(***************************************************************************)
(* C31: on a push build, the access to base needs the slug before it       *)
(* reads the commit range and before it runs any git command or HTTP       *)
(* request: TRAVIS_REPO_SLUG is read first unless the slug is cached, and  *)
(* with the variable unset the access fails with OSError without reading   *)
(* the range and without running rev-parse, base staying unset.            *)
(***************************************************************************)
C31_SlugComesBeforeResolution ==
    last.prop = "base"
    => /\ \A r \in RangeReads \cup ExternalCalls :
              /\ cache._event_type = Push
              /\ cache._slug # UNSET
              /\ \A k \in SlugReads : k < r
       /\ \A k \in SlugReads :
              /\ cache._event_type = Push
              /\ calls[k].ret = Absent
                 => /\ last.exc = "OSError"
                    /\ cache._base = UNSET
                    /\ cache._slug = UNSET
                    /\ RangeReads = {}
                    /\ ExternalCalls = {}
                    /\ k = Len(calls)

\* A push build without TRAVIS_REPO_SLUG: the access to base ends at the
\* read of the slug.
C31_Witness ==
    /\ last.prop = "base"
    /\ last.exc = "OSError"
    /\ cache._event_type = Push
    /\ \E k \in SlugReads : calls[k].ret = Absent
    /\ RevParseCalls = {}
    /\ RangeReads = {}
    /\ Proc(0, ShaA \o NL) \in inputs["rev-parse"] \cap inputs["merge-base"]

(***************************************************************************)
(* C32: an access to base that fails on a push or pull_request build       *)
(* caches no failure: base stays unset and every field resolved on the     *)
(* way, the event type and on a push build the slug, stays cached.  The    *)
(* next access to base resolves again: on a push build with the event      *)
(* type and the slug cached it starts at the read of the commit range,     *)
(* on a pull_request build at the branch, and it succeeds when the         *)
(* environment and the repository then allow it.                           *)
(***************************************************************************)
C32_FailedBaseIsNotCached ==
    [][Accessed("base")
       => /\ last'.exc # NoExc
             => /\ cache'._base = UNSET
                /\ \A f \in Fields : cache[f] # UNSET => cache'[f] = cache[f]
                /\ \A k \in CallsTo(calls', "os.getenv", TRAVIS_EVENT_TYPE) :
                       (\E n \in EventTypeNames :
                            calls'[k].ret = PyStr(EventTypeValue(n)))
                       => cache'._event_type # UNSET
                /\ \A k \in CallsTo(calls', "os.environ", TRAVIS_SLUG) :
                       calls'[k].ret # Absent => cache'._slug = calls'[k].ret
          /\ (cache._base = UNSET /\ cache._event_type = Push
                  /\ cache._slug # UNSET)
             => /\ calls' # <<>>
                /\ calls'[1].fn = "os.getenv"
                /\ calls'[1].what = TRAVIS_RANGE
          /\ (cache._base = UNSET /\ cache._event_type = PullRequest
                  /\ cache._branch = UNSET)
             => /\ calls' # <<>>
                /\ calls'[1].fn = "os.environ"
                /\ calls'[1].what = TRAVIS_BRANCH
          /\ last'.exc = NoExc
             => /\ cache'._base = last'.val
                /\ last'.val # UNSET]_vars

\* The second access of the object is an access to base that starts at the
\* commit range and succeeds: the first access was an access to base that
\* cached the event type and the slug and failed.
C32_Witness ==
    /\ last.prop = "base"
    /\ nacc = 2
    /\ last.exc = NoExc
    /\ cache._base = last.val
    /\ calls # <<>>
    /\ calls[1].what = TRAVIS_RANGE

(***************************************************************************)
(* C33: an access to merged_pr neither reads nor writes the cached         *)
(* is_merge: it leaves _is_merge as it was, and on a push build without a  *)
(* cached merged_pr it runs the merge-commit probe itself, whether         *)
(* is_merge is cached or not, and goes by what that probe answers: the     *)
(* subject is read iff the fresh probe finds two parents.                  *)
(***************************************************************************)
C33_MergedPrProbesItself ==
    [][Accessed("merged_pr")
       => /\ cache'._is_merge = cache._is_merge
          /\ (cache._merged_pr = UNSET /\ cache'._event_type = Push)
             => /\ Cardinality(CallsTo(calls', "git", "log-parents")) = 1
                /\ \A i \in CallsTo(calls', "git", "log-parents") :
                       calls'[i].ret.rc = 0
                       => CASE ParentCount(calls'[i].ret.out) = 1 ->
                                   /\ last'.exc = NoExc
                                   /\ last'.val = None
                                   /\ CallsTo(calls', "git", "log-subject") = {}
                            [] ParentCount(calls'[i].ret.out) = 2 ->
                                   CallsTo(calls', "git", "log-subject") # {}
                            [] OTHER -> last'.exc = "NotImplementedError"]_vars

\* is_merge is cached as True, and merged_pr, whose own probe found one
\* parent, is None without the subject having been read.
C33_Witness ==
    /\ cache._is_merge = PyBool(TRUE)
    /\ last = [prop |-> "merged_pr", exc |-> NoExc, val |-> None]
    /\ cache._event_type = Push
    /\ \E i \in ParentsCalls :
           calls[i].ret.rc = 0 /\ ParentCount(calls[i].ret.out) = 1
    /\ SubjectCalls = {}

\* Where the separator occurs first in a string that holds it.
FirstSeparator(raw) ==
    CHOOSE p \in SeparatorAt(raw) : \A q \in SeparatorAt(raw) : p <= q

\* The string splits in exactly two parts: the separator occurs, and does
\* not occur again in what follows its first occurrence.
SplitsInTwo(raw) ==
    /\ SeparatorAt(raw) # {}
    /\ \A q \in SeparatorAt(raw) : q < FirstSeparator(raw) + 3

(***************************************************************************)
(* C35: _get_commit_range succeeds iff the separator '...' splits the      *)
(* value in exactly two parts, and then returns the two parts, of which    *)
(* either may be empty ('...b', 'a...'); a value that holds the separator  *)
(* twice (a...b...c) fails with OSError as a value that holds none does.   *)
(***************************************************************************)
C35_RangeSplitsInExactlyTwo ==
    last.prop = "_get_commit_range"
    => \A r \in RangeReads :
           LET raw == Text(calls[r].ret)
           IN  IF SplitsInTwo(raw)
               THEN /\ last.exc = NoExc
                    /\ last.val =
                           Pair(PyStr(SubSeq(raw, 1, FirstSeparator(raw) - 1)),
                                PyStr(SubSeq(raw, FirstSeparator(raw) + 3,
                                             Len(raw))))
               ELSE /\ last.exc = "OSError"
                    /\ last.val = None

\* The value a...b...c is refused.
C35_Witness ==
    /\ last.prop = "_get_commit_range"
    /\ last.exc = "OSError"
    /\ \E r \in RangeReads :
           calls[r].ret =
               PyStr(<<"a", ".", ".", ".", "b", ".", ".", ".", "c">>)

(***************************************************************************)
(* Several config objects.  The fields are class attributes holding UNSET  *)
(* (Config and Travis class bodies); `self._x = value` in a getter binds   *)
(* the attribute on the instance, and reading self._x gives the instance   *)
(* attribute when there is one, else the class attribute.  Here cache      *)
(* maps the class and each object to its attributes, UNSET standing on an  *)
(* object for an attribute it has not bound.  x and y are two Travis       *)
(* objects; fresh is the Travis() that get_config creates at each call.    *)
(***************************************************************************)
Class == "class"
Objects == {"x", "y", "fresh"}

\* self._f as the getters of object o read it.
View(o) ==
    [f \in Fields |-> IF cache[o][f] # UNSET THEN cache[o][f]
                      ELSE cache[Class][f]]

\* Object o at the start of an access.
StartOn(o) == [cache |-> View(o), calls |-> <<>>, inputs |-> inputs]

\* Faulty variant of StoreOn: the getters bind the attribute on the class.
StoreOn_Class(o, out) ==
    [cache EXCEPT ![Class] =
        [f \in Fields |-> IF out.cache[f] # View(o)[f] THEN out.cache[f]
                          ELSE @[f]]]

\* The attributes after the access to o that ended as out: what a getter
\* assigned is bound on o.
StoreOn(o, out) ==
    [cache EXCEPT ![o] =
        [f \in Fields |-> IF out.cache[f] # View(o)[f] THEN out.cache[f]
                          ELSE @[f]]]

\* The access to prop of object o ends with outcome out.
FinishOn(o, prop, out) ==
    /\ cache' = StoreOn(o, out)
    /\ calls' = out.calls
    /\ last' = [prop |-> prop, exc |-> out.exc, val |-> out.val, obj |-> o]
    /\ nacc' = nacc + 1
    /\ UNCHANGED <<inputs, threads>>

InitObjects ==
    /\ cache = [o \in Objects \cup {Class} |-> [f \in Fields |-> UNSET]]
    /\ last = [prop |-> "none", exc |-> NoExc, val |-> None, obj |-> "none"]
    /\ calls = <<>>
    /\ nacc = 0
    /\ threads = NoThreads
    /\ inputs = Domain

ObjectActive ==
    /\ nacc < MaxAccesses
    /\ \E o \in {"x", "y"} : \E out \in active(StartOn(o)) :
           FinishOn(o, "active", out)

ObjectTag ==
    /\ nacc < MaxAccesses
    /\ \E o \in {"x", "y"} : \E out \in tag(StartOn(o)) :
           FinishOn(o, "tag", out)

ObjectBase ==
    /\ nacc < MaxAccesses
    /\ \E o \in {"x", "y"} : \E out \in base(StartOn(o)) :
           FinishOn(o, "base", out)

\* get_config: `Travis()` among the choices, then `choice.active` on it.
\* The object of the call before is dropped.
FreshChoiceActive ==
    /\ nacc < MaxAccesses
    /\ \E out \in active([cache |-> cache[Class], calls |-> <<>>,
                           inputs |-> inputs]) :
           /\ cache' = [cache EXCEPT !["fresh"] =
                            [f \in Fields |->
                                IF out.cache[f] # cache[Class][f]
                                THEN out.cache[f] ELSE UNSET]]
           /\ calls' = out.calls
           /\ last' = [prop |-> "active", exc |-> out.exc, val |-> out.val,
                       obj |-> "fresh"]
           /\ nacc' = nacc + 1
           /\ UNCHANGED <<inputs, threads>>

NextObjects ==
    \/ ObjectActive
    \/ ObjectTag
    \/ ObjectBase
    \/ FreshChoiceActive

SpecObjects == InitObjects /\ [][NextObjects]_vars

(***************************************************************************)
(* C34: caches are per object.  An access to a property of one config      *)
(* object changes the cache fields of no other object, of the same class   *)
(* too, and of no class: what another object has not resolved itself       *)
(* stays UNSET for it.  The object that get_config creates starts with     *)
(* every field UNSET whatever the other objects have cached: its active    *)
(* is read from the environment at each call.                              *)
(***************************************************************************)
C34_CachesArePerObject ==
    [][nacc' = nacc + 1
       => /\ \A p \in (Objects \cup {Class}) \ {last'.obj} :
                 cache'[p] = cache[p]
          /\ \A f \in Fields : cache'[Class][f] = UNSET
          /\ \A f \in Fields :
                 (last'.obj # "fresh" /\ cache'[last'.obj][f] # cache[last'.obj][f])
                 => cache[last'.obj][f] = UNSET
          /\ last'.obj = "fresh"
             => /\ CallsTo(calls', "os.getenv", IN_TRAVIS) # {}
                /\ \A k \in CallsTo(calls', "os.getenv", IN_TRAVIS) :
                       last'.val =
                           PyBool(/\ calls'[k].ret # Absent
                                  /\ IsTrueIgnoringCase(calls'[k].ret.v))
                /\ \A f \in Fields \ {"_active"} : cache'["fresh"][f] = UNSET
                /\ cache'["fresh"]._active = last'.val]_vars

\* x has resolved active as true and its base; y, of the same class, has
\* resolved nothing, and the object of get_config has just read active as
\* false.
C34_Witness ==
    /\ cache["x"]._active = PyBool(TRUE)
    /\ cache["x"]._base # UNSET
    /\ \A f \in Fields : cache["y"][f] = UNSET
    /\ last.obj = "fresh"
    /\ last.val = PyBool(FALSE)
    /\ cache["fresh"]._active = PyBool(FALSE)

====
